---- MODULE Spec2Model ----
(***************************************************************************)
(* Hybrid IDS: the per-packet pipeline of src/nids.  The flow table        *)
(* (ConnectionTracker), the packet parser (PacketParser), the signature    *)
(* rule engine (RuleEngine) and the capture loop of sids_main.cpp.         *)
(*                                                                         *)
(* Time.  A std::chrono::system_clock::time_point is an integer count of   *)
(* clock ticks.  TicksPerMs ticks make a millisecond and MsPerSec          *)
(* milliseconds make a second; both are scaled down so that the            *)
(* truncating duration_cast<> conversions of the code can be enumerated.   *)
(* A double holding "milliseconds / 1000.0" is kept as its millisecond     *)
(* count: the value in seconds is that count over MsPerSec.                *)
(***************************************************************************)
EXTENDS Integers, Sequences, FiniteSets, TLC

VARIABLES
    connections_,          \* ConnectionTracker::connections_ : key -> FlowStats
    total_connections_,    \* ConnectionTracker::total_connections_
    expired_connections_,  \* ConnectionTracker::expired_connections_
    now,                   \* std::chrono::system_clock::now()
    packets_parsed_,       \* PacketParser::packets_parsed_
    parse_errors_,         \* PacketParser::parse_errors_
    next_packet_id_,       \* PacketParser::next_packet_id_
    rules_,                \* RuleEngine::rules_
    packets_evaluated_,    \* RuleEngine::packets_evaluated_
    alerts_generated_,     \* RuleEngine::alerts_generated_
    rule_matches_,         \* RuleEngine::rule_matches_
    next_alert_id_,        \* RuleEngine::next_alert_id_
    stats_,                \* SignatureIDS::stats_
    alert_log,             \* the alerts evaluate returned (handle_alert logs them), in order
    zmq_pub,               \* ZMQPublisher: connected_, sent_count_, error_count_
    config,                \* nids_main.cpp: NIDSConfig config
    stop_capture,          \* nids_main.cpp: volatile sig_atomic_t stop_capture
    nids_pc,               \* nids_main.cpp: where main's capture loop stands
    dispatch_left,         \* callbacks the running pcap_dispatch has still to make
    g_running,             \* sids_main.cpp: std::atomic<bool> g_running
    capture_pc,            \* capture_live: where the capture loop stands
    stats_pc,              \* capture_live: where stats_thread stands
    probe                  \* the call under observation: its inputs and its result

trackerVars == <<connections_, total_connections_, expired_connections_, now>>
parserVars == <<packets_parsed_, parse_errors_, next_packet_id_>>
engineVars ==
    <<rules_, packets_evaluated_, alerts_generated_, rule_matches_, next_alert_id_>>
sidsVars == <<stats_, alert_log>>
pipelineVars == <<parserVars, engineVars, sidsVars>>
nidsVars == <<config, stop_capture, nids_pc, dispatch_left>>
liveVars == <<g_running, capture_pc, stats_pc>>
mainVars == <<zmq_pub, nidsVars, liveVars>>

----------------------------------------------------------------------------
(* Bounds of the model *)

TicksPerMs == 2
MsPerSec == 2
timeout_seconds_ == 1
max_connections_ == 2
MaxFlowPackets == 5
MaxTablePackets == 5
MaxTotalConnections == 3
MaxPackets == 3
MaxRules == 2

TicksPerSec == TicksPerMs * MsPerSec

----------------------------------------------------------------------------
(* TCP flag constants, connection_tracker.cpp:9-14 *)

TCP_FIN == 1
TCP_SYN == 2
TCP_RST == 4
TCP_PSH == 8
TCP_ACK == 16
TCP_URG == 32

\* flags & bit, for a single-bit mask
HasFlag(flags, bit) == (flags \div bit) % 2 = 1

ConnectionState ==
    {"SYN_SENT", "SYN_RECEIVED", "ESTABLISHED", "FIN_WAIT", "CLOSED", "UNKNOWN"}

\* integer division rounding toward zero, as duration_cast<> does
TruncDiv(a, b) == IF a >= 0 THEN a \div b ELSE -((-a) \div b)

\* duration_cast<std::chrono::milliseconds>(d).count()
ToMilliseconds(d) == TruncDiv(d, TicksPerMs)

\* duration_cast<std::chrono::seconds>(d).count()
ToSeconds(d) == TruncDiv(d, TicksPerSec)

\* ntohs on a little-endian host: the two bytes of a 16-bit value swapped
Ntohs(x) == (x % 256) * 256 + (x \div 256)

----------------------------------------------------------------------------
(* Frames.  A captured frame is the sequence of its bytes; offsets count
   from 0 as in the code. *)

Byte(data, i) == data[i + 1]

\* (data[i] << 8) | data[i + 1]
U16(data, i) == Byte(data, i) * 256 + Byte(data, i + 1)

Zeros(n) == [i \in 1 .. n |-> 0]

\* a - b in uint32_t arithmetic.  A negative difference wraps to 2^32 + a - b;
\* TLC's integers end at 2^31 - 1, so the wrapped value is kept as
\* 2^31 + a - b, which like the real one exceeds every frame length.
SubU32(a, b) == IF a >= b THEN a - b ELSE (2147483647 - b) + a + 1

ETHER_HDR_SIZE == 14
IPPROTO_TCP_NUM == 6
IPPROTO_UDP_NUM == 17
IPPROTO_ICMP_NUM == 1
ETHERTYPE_IPV4 == 2048

\* ParsedPacket packet = {}; then timestamp, packet_id, raw_length.  The pointer
\* payload is kept as the bytes it points to and as payload_offset, its
\* distance from raw_data (0 for nullptr)
ZeroPacket(timestamp, id, length) ==
    [ timestamp |-> timestamp, packet_id |-> id, raw_length |-> length,
      eth_header |-> [ethertype |-> 0],
      ip_header |-> [version_ihl |-> 0, total_length |-> 0, protocol |-> 0,
                     src_ip |-> <<0, 0, 0, 0>>, dst_ip |-> <<0, 0, 0, 0>>],
      has_tcp |-> FALSE, has_udp |-> FALSE,
      tcp_header |-> [src_port |-> 0, dst_port |-> 0, data_offset |-> 0, flags |-> 0],
      udp_header |-> [src_port |-> 0, dst_port |-> 0, length |-> 0],
      payload |-> << >>, payload_offset |-> 0, payload_length |-> 0 ]

validate_packet(data, length) == length >= 34

\* parse_ethernet that accepts every ethertype
parse_ethernet_AnyEthertype(data, length, packet) ==
    IF length < ETHER_HDR_SIZE THEN [ok |-> FALSE, packet |-> packet]
    ELSE [ ok |-> TRUE,
           packet |-> [packet EXCEPT !.eth_header.ethertype = U16(data, 12)] ]

\* parse_ethernet: [ok, packet]
parse_ethernet(data, length, packet) ==
    IF length < ETHER_HDR_SIZE THEN [ok |-> FALSE, packet |-> packet]
    ELSE [ ok |-> U16(data, 12) = ETHERTYPE_IPV4,
           packet |-> [packet EXCEPT !.eth_header.ethertype = U16(data, 12)] ]

\* parse_ipv4 on the bytes from offset `at`: [ok, packet]
parse_ipv4(data, at, length, packet) ==
    IF length < 20 THEN [ok |-> FALSE, packet |-> packet]
    ELSE IF Byte(data, at) \div 16 # 4
    THEN [ ok |-> FALSE,
           packet |-> [packet EXCEPT !.ip_header.version_ihl = Byte(data, at)] ]
    ELSE [ ok |-> TRUE,
           packet |-> [packet EXCEPT
               !.ip_header = [ version_ihl |-> Byte(data, at),
                               total_length |-> U16(data, at + 2),
                               protocol |-> Byte(data, at + 9),
                               src_ip |-> SubSeq(data, at + 13, at + 16),
                               dst_ip |-> SubSeq(data, at + 17, at + 20) ]] ]

\* the bytes from offset `from` to the end of the `length` bytes that start at
\* offset `at`.  A length that wrapped around reaches past every buffer: the
\* bytes are then those of the memory that `data` describes.
Bytes(data, from, at, length) ==
    SubSeq(data, from + 1, IF length > Len(data) - at THEN Len(data) ELSE at + length)

\* parse_tcp on the bytes from offset `at`: [ok, packet]
parse_tcp(data, at, length, packet) ==
    IF length < 20 THEN [ok |-> FALSE, packet |-> packet]
    ELSE LET data_offset == Byte(data, at + 12) \div 16
             tcp_header_length == data_offset * 4
         IN  [ ok |-> TRUE,
               packet |-> [packet EXCEPT
                   !.tcp_header = [ src_port |-> U16(data, at),
                                    dst_port |-> U16(data, at + 2),
                                    data_offset |-> data_offset,
                                    flags |-> Byte(data, at + 13) % 64 ],
                   !.payload = IF length > tcp_header_length
                               THEN Bytes(data, at + tcp_header_length, at, length)
                               ELSE << >>,
                   !.payload_offset = IF length > tcp_header_length
                                      THEN at + tcp_header_length ELSE 0,
                   !.payload_length = IF length > tcp_header_length
                                      THEN length - tcp_header_length ELSE 0] ]

\* parse_udp on the bytes from offset `at`: [ok, packet]
parse_udp(data, at, length, packet) ==
    IF length < 8 THEN [ok |-> FALSE, packet |-> packet]
    ELSE [ ok |-> TRUE,
           packet |-> [packet EXCEPT
               !.udp_header = [ src_port |-> U16(data, at),
                                dst_port |-> U16(data, at + 2),
                                length |-> U16(data, at + 4) ],
               !.payload = IF length > 8 THEN Bytes(data, at + 8, at, length)
                           ELSE << >>,
               !.payload_offset = IF length > 8 THEN at + 8 ELSE 0,
               !.payload_length = IF length > 8 THEN length - 8 ELSE 0] ]

\* the transport-layer part of parse
parse_transport(data, length, packet) ==
    LET ip_header_length == ((packet.ip_header.version_ihl % 16) * 4) % 256
        at == ETHER_HDR_SIZE + ip_header_length
        transport_length == SubU32(length - ETHER_HDR_SIZE, ip_header_length)
    IN  IF packet.ip_header.protocol = IPPROTO_TCP_NUM
        THEN LET r == parse_tcp(data, at, transport_length, packet)
             IN  IF r.ok THEN [r.packet EXCEPT !.has_tcp = TRUE] ELSE packet
        ELSE IF packet.ip_header.protocol = IPPROTO_UDP_NUM
        THEN LET r == parse_udp(data, at, transport_length, packet)
             IN  IF r.ok THEN [r.packet EXCEPT !.has_udp = TRUE] ELSE packet
        ELSE packet

\* PacketParser::parse without its counters: [ok, packet], ok being whether
\* parse counted the frame in packets_parsed_ rather than in parse_errors_
Decode(data, length, timestamp, id) ==
    LET p0 == ZeroPacket(timestamp, id, length)
        eth == parse_ethernet(data, length, p0)
        ip == parse_ipv4(data, ETHER_HDR_SIZE, length - ETHER_HDR_SIZE, eth.packet)
    IN  IF ~validate_packet(data, length) THEN [ok |-> FALSE, packet |-> p0]
        ELSE IF ~eth.ok THEN [ok |-> FALSE, packet |-> eth.packet]
        ELSE IF ~ip.ok THEN [ok |-> FALSE, packet |-> ip.packet]
        ELSE [ok |-> TRUE, packet |-> parse_transport(data, length, ip.packet)]

----------------------------------------------------------------------------
(* ParsedPacket helpers, types.cpp *)

get_src_port(packet) ==
    IF packet.has_tcp THEN Ntohs(packet.tcp_header.src_port)
    ELSE IF packet.has_udp THEN Ntohs(packet.udp_header.src_port)
    ELSE 0

get_dst_port(packet) ==
    IF packet.has_tcp THEN Ntohs(packet.tcp_header.dst_port)
    ELSE IF packet.has_udp THEN Ntohs(packet.udp_header.dst_port)
    ELSE 0

----------------------------------------------------------------------------
(* RuleEngine.  A std::string is the sequence of its character codes; the
   dotted-quad string of an address is written as its four numbers. *)

Str_union_select == <<117, 110, 105, 111, 110, 32, 115, 101, 108, 101, 99, 116>>    \* "union select"
Str_or_1_1 == <<111, 114, 32, 49, 61, 49>>    \* "or 1=1"
Str_quote_or == <<39, 32, 111, 114, 32, 39, 49, 39, 61, 39, 49>>    \* "' or '1'='1"
Str_USER == <<85, 83, 69, 82, 32>>    \* "USER "
Str_PASS == <<80, 65, 83, 83, 32>>    \* "PASS "

PayloadScanLimit == 1024

RECURSIVE BitAnd(_, _)
\* a & b
BitAnd(a, b) ==
    IF a = 0 \/ b = 0 THEN 0
    ELSE (a % 2) * (b % 2) + 2 * BitAnd(a \div 2, b \div 2)

\* ::tolower in the C locale
ToLower(c) == IF c >= 65 /\ c <= 90 THEN c + 32 ELSE c

LowerCase(str) == [i \in 1 .. Len(str) |-> ToLower(str[i])]

\* haystack.find(needle) != std::string::npos
Contains(haystack, needle) ==
    \E i \in 0 .. Len(haystack) - Len(needle) :
        \A j \in 1 .. Len(needle) : haystack[i + j] = needle[j]

Min(a, b) == IF a <= b THEN a ELSE b

get_src_ip(packet) == packet.ip_header.src_ip
get_dst_ip(packet) == packet.ip_header.dst_ip

get_protocol(packet) ==
    IF packet.has_tcp THEN "TCP" ELSE IF packet.has_udp THEN "UDP" ELSE "OTHER"

match_ip_filter(ip, filter) == filter = "any" \/ filter = ip

match_port(port, port_list) == port_list = {} \/ port \in port_list

match_tcp_flags(packet_flags, mask, value) == BitAnd(packet_flags, mask) = value

\* match_content that searches the whole payload
match_content_WholePayload(payload, payload_len, patterns) ==
    /\ patterns # << >>
    /\ payload_len # 0
    /\ LET payload_str == LowerCase(SubSeq(payload, 1, payload_len))
       IN  \E i \in 1 .. Len(patterns) :
               Contains(payload_str, LowerCase(patterns[i]))

match_content(payload, payload_len, patterns) ==
    /\ patterns # << >>
    /\ payload_len # 0
    /\ LET payload_str ==
               LowerCase(SubSeq(payload, 1, Min(payload_len, PayloadScanLimit)))
       IN  \E i \in 1 .. Len(patterns) :
               Contains(payload_str, LowerCase(patterns[i]))

\* whether std::regex re(pattern, std::regex::icase) returns: a pattern whose
\* only metacharacter is an opening parenthesis throws std::regex_error
Compiles(pattern) == \A i \in 1 .. Len(pattern) : pattern[i] # 40

\* match_regex for patterns without metacharacters, and for patterns with an
\* unclosed parenthesis: std::regex_search with std::regex::icase finds a
\* literal pattern, whatever its case, anywhere in the first 1024 payload
\* bytes; the catch block skips a pattern that does not compile
match_regex(payload, payload_len, patterns) ==
    /\ patterns # << >>
    /\ payload_len # 0
    /\ LET payload_str == SubSeq(payload, 1, Min(payload_len, PayloadScanLimit))
       IN  \E i \in 1 .. Len(patterns) :
               /\ Compiles(patterns[i])
               /\ Contains(LowerCase(payload_str), LowerCase(patterns[i]))

\* the body of the rule loop of evaluate, up to "all conditions matched"
RuleMatches(rule, packet) ==
    /\ rule.enabled
    /\ ~(rule.protocol = "TCP" /\ ~packet.has_tcp)
    /\ ~(rule.protocol = "UDP" /\ ~packet.has_udp)
    /\ (rule.src_ip_filter # "any"
          => match_ip_filter(get_src_ip(packet), rule.src_ip_filter))
    /\ (rule.dst_ip_filter # "any"
          => match_ip_filter(get_dst_ip(packet), rule.dst_ip_filter))
    /\ (rule.src_ports # {} => match_port(get_src_port(packet), rule.src_ports))
    /\ (rule.dst_ports # {} => match_port(get_dst_port(packet), rule.dst_ports))
    /\ ((packet.has_tcp /\ rule.tcp_flags_mask # 0)
          => match_tcp_flags(packet.tcp_header.flags,
                             rule.tcp_flags_mask, rule.tcp_flags_value))
    /\ (rule.content_patterns # << >>
          => match_content(packet.payload, packet.payload_length,
                           rule.content_patterns))

\* "Find which pattern matched": the first pattern that matches alone
MatchedContent(rule, packet) ==
    IF rule.content_patterns = << >> THEN << >>
    ELSE LET hits == {i \in 1 .. Len(rule.content_patterns) :
                         match_content(packet.payload, packet.payload_length,
                                       <<rule.content_patterns[i]>>)}
         IN  IF hits = {} THEN << >>
             ELSE rule.content_patterns[CHOOSE i \in hits : \A j \in hits : i <= j]

create_alert(rule, packet, matched_content, id) ==
    [ alert_id |-> id, timestamp |-> packet.timestamp,
      rule_id |-> rule.rule_id, rule_name |-> rule.name, severity |-> rule.severity,
      packet_id |-> packet.packet_id,
      src_ip |-> get_src_ip(packet), dst_ip |-> get_dst_ip(packet),
      src_port |-> get_src_port(packet), dst_port |-> get_dst_port(packet),
      protocol |-> get_protocol(packet),
      description |-> rule.description, matched_content |-> matched_content ]

RECURSIVE EvaluateFrom_SharedId(_, _, _, _)
\* evaluate whose alerts for one packet all take the same alert_id
EvaluateFrom_SharedId(rules, i, packet, id) ==
    IF i > Len(rules) THEN << >>
    ELSE IF RuleMatches(rules[i], packet)
    THEN <<create_alert(rules[i], packet, MatchedContent(rules[i], packet), id)>>
            \o EvaluateFrom_SharedId(rules, i + 1, packet, id)
    ELSE EvaluateFrom_SharedId(rules, i + 1, packet, id)

RECURSIVE EvaluateFrom_NewestFirst(_, _, _, _)
\* evaluate that walks the rule list from its end
EvaluateFrom_NewestFirst(rules, i, packet, id) ==
    IF i > Len(rules) THEN << >>
    ELSE LET rule == rules[Len(rules) + 1 - i]
         IN  IF RuleMatches(rule, packet)
             THEN <<create_alert(rule, packet, MatchedContent(rule, packet), id)>>
                     \o EvaluateFrom_NewestFirst(rules, i + 1, packet, id + 1)
             ELSE EvaluateFrom_NewestFirst(rules, i + 1, packet, id)

RECURSIVE EvaluateFrom(_, _, _, _)
\* the alerts evaluate pushes for rules i .. , the first taking alert_id `id`
EvaluateFrom(rules, i, packet, id) ==
    IF i > Len(rules) THEN << >>
    ELSE IF RuleMatches(rules[i], packet)
    THEN <<create_alert(rules[i], packet, MatchedContent(rules[i], packet), id)>>
            \o EvaluateFrom(rules, i + 1, packet, id + 1)
    ELSE EvaluateFrom(rules, i + 1, packet, id)

\* a SignatureRule as load_rules fills it; flagpair is <<tcp_flags_mask,
\* tcp_flags_value>>
Rule(id, name, description, protocol, dst_ports, flagpair, patterns, severity, action, enabled) ==
    [ rule_id |-> id, name |-> name, description |-> description,
      protocol |-> protocol,
      src_ip_filter |-> "any", dst_ip_filter |-> "any",
      src_ports |-> {}, dst_ports |-> dst_ports,
      tcp_flags_mask |-> flagpair[1], tcp_flags_value |-> flagpair[2],
      content_patterns |-> patterns, regex_patterns |-> << >>,
      severity |-> severity, action |-> action, enabled |-> enabled ]

\* the rules load_rules adds, in order; junk[i] is what rule i, which
\* load_rules never gives a flag mask, holds in its two flag members
DefaultRules(junk) ==
    << Rule(1001, "SSH Scan Detection", "Multiple SSH connection attempts detected",
            "TCP", {22}, <<TCP_SYN, TCP_SYN>>, << >>, "MEDIUM", "alert", TRUE),
       Rule(1002, "SQL Injection Attempt", "Possible SQL injection in HTTP request",
            "TCP", {80, 443, 8080}, junk[2],
            <<Str_union_select, Str_or_1_1, Str_quote_or>>, "HIGH", "alert", TRUE),
       Rule(1003, "Port Scan Detection", "SYN packet to commonly scanned port",
            "TCP", {21, 22, 23, 25, 80, 443, 3389, 8080},
            <<TCP_SYN + TCP_ACK, TCP_SYN>>, << >>, "MEDIUM", "alert", TRUE),
       Rule(1004, "FTP Authentication Attempt", "FTP USER or PASS command detected",
            "TCP", {21}, junk[4], <<Str_USER, Str_PASS>>, "LOW", "alert", TRUE),
       Rule(1005, "DNS Query", "DNS query packet detected",
            "UDP", {53}, junk[5], << >>, "LOW", "log", FALSE),
       Rule(1006, "Telnet Connection", "Unencrypted Telnet connection detected",
            "TCP", {23}, junk[6], << >>, "MEDIUM", "alert", TRUE) >>

----------------------------------------------------------------------------
(* ConnectionTracker *)

create_key_Canonical(packet) ==
    LET swap == get_src_port(packet) < get_dst_port(packet)
    IN  [ src_ip   |-> IF swap THEN packet.ip_header.dst_ip ELSE packet.ip_header.src_ip,
          dst_ip   |-> IF swap THEN packet.ip_header.src_ip ELSE packet.ip_header.dst_ip,
          src_port |-> IF swap THEN get_dst_port(packet) ELSE get_src_port(packet),
          dst_port |-> IF swap THEN get_src_port(packet) ELSE get_dst_port(packet),
          protocol |-> packet.ip_header.protocol ]

create_key(packet) ==
    [ src_ip   |-> packet.ip_header.src_ip,
      dst_ip   |-> packet.ip_header.dst_ip,
      src_port |-> get_src_port(packet),
      dst_port |-> get_dst_port(packet),
      protocol |-> packet.ip_header.protocol ]

\* FlowStats flow = {} and the initialisation that follows it
NewFlow(packet) ==
    [ start_time |-> packet.timestamp,
      last_seen |-> packet.timestamp,
      duration |-> 0,
      fwd_packets |-> 0, fwd_bytes |-> 0,
      fwd_iat |-> <<>>, fwd_pkt_lengths |-> <<>>,
      bwd_packets |-> 0, bwd_bytes |-> 0,
      bwd_iat |-> <<>>, bwd_pkt_lengths |-> <<>>,
      syn_count |-> 0, ack_count |-> 0, fin_count |-> 0,
      rst_count |-> 0, psh_count |-> 0, urg_count |-> 0,
      state |-> "UNKNOWN" ]

\* InterArrival with the gap taken from the first packet of the flow
InterArrival_FromStart(flow, packet) == ToMilliseconds(packet.timestamp - flow.start_time)

\* iat, in milliseconds (the code divides by 1000.0 to store seconds)
InterArrival(flow, packet) == ToMilliseconds(packet.timestamp - flow.last_seen)

\* bool is_forward = true
IsForward(packet) == TRUE

\* AddPacket with the length sample pushed only under the fwd_packets > 1 test
AddPacket_LengthInsideTest(flow, packet, iat) ==
    [flow EXCEPT
        !.fwd_packets = @ + 1,
        !.fwd_bytes = @ + packet.raw_length,
        !.fwd_iat = IF flow.fwd_packets + 1 > 1 THEN Append(@, iat) ELSE @,
        !.fwd_pkt_lengths =
            IF flow.fwd_packets + 1 > 1 THEN Append(@, packet.raw_length) ELSE @]

\* AddPacket with the test made before fwd_packets is incremented
AddPacket_TestBeforeIncrement(flow, packet, iat) ==
    [flow EXCEPT
        !.fwd_packets = @ + 1,
        !.fwd_bytes = @ + packet.raw_length,
        !.fwd_iat = IF flow.fwd_packets > 1 THEN Append(@, iat) ELSE @,
        !.fwd_pkt_lengths = Append(@, packet.raw_length)]

\* the is_forward / else branches of update
AddPacket(flow, packet, iat) ==
    IF IsForward(packet)
    THEN [flow EXCEPT
            !.fwd_packets = @ + 1,
            !.fwd_bytes = @ + packet.raw_length,
            !.fwd_iat = IF flow.fwd_packets + 1 > 1 THEN Append(@, iat) ELSE @,
            !.fwd_pkt_lengths = Append(@, packet.raw_length)]
    ELSE [flow EXCEPT
            !.bwd_packets = @ + 1,
            !.bwd_bytes = @ + packet.raw_length,
            !.bwd_iat = IF flow.bwd_packets + 1 > 1 THEN Append(@, iat) ELSE @,
            !.bwd_pkt_lengths = Append(@, packet.raw_length)]

CountFlags(flow, flags) ==
    [flow EXCEPT
        !.syn_count = IF HasFlag(flags, TCP_SYN) THEN @ + 1 ELSE @,
        !.ack_count = IF HasFlag(flags, TCP_ACK) THEN @ + 1 ELSE @,
        !.fin_count = IF HasFlag(flags, TCP_FIN) THEN @ + 1 ELSE @,
        !.rst_count = IF HasFlag(flags, TCP_RST) THEN @ + 1 ELSE @,
        !.psh_count = IF HasFlag(flags, TCP_PSH) THEN @ + 1 ELSE @,
        !.urg_count = IF HasFlag(flags, TCP_URG) THEN @ + 1 ELSE @]

\* NextTcpState with the "no ACK" test of the UNKNOWN case left out
NextTcpState_SynOnly(state, flags) ==
    CASE state = "UNKNOWN" ->
            IF HasFlag(flags, TCP_SYN) THEN "SYN_SENT" ELSE state
      [] state = "SYN_SENT" ->
            IF HasFlag(flags, TCP_SYN) /\ HasFlag(flags, TCP_ACK)
            THEN "SYN_RECEIVED" ELSE state
      [] state = "SYN_RECEIVED" ->
            IF HasFlag(flags, TCP_ACK) THEN "ESTABLISHED" ELSE state
      [] state = "ESTABLISHED" ->
            IF HasFlag(flags, TCP_FIN) THEN "FIN_WAIT"
            ELSE IF HasFlag(flags, TCP_RST) THEN "CLOSED"
            ELSE state
      [] state = "FIN_WAIT" ->
            IF HasFlag(flags, TCP_FIN) \/ HasFlag(flags, TCP_RST)
            THEN "CLOSED" ELSE state
      [] OTHER -> state

\* NextTcpState with a CLOSED case that lets a new SYN reopen the flow
NextTcpState_ReopenOnSyn(state, flags) ==
    CASE state = "UNKNOWN" ->
            IF HasFlag(flags, TCP_SYN) /\ ~HasFlag(flags, TCP_ACK)
            THEN "SYN_SENT" ELSE state
      [] state = "SYN_SENT" ->
            IF HasFlag(flags, TCP_SYN) /\ HasFlag(flags, TCP_ACK)
            THEN "SYN_RECEIVED" ELSE state
      [] state = "SYN_RECEIVED" ->
            IF HasFlag(flags, TCP_ACK) THEN "ESTABLISHED" ELSE state
      [] state = "ESTABLISHED" ->
            IF HasFlag(flags, TCP_FIN) THEN "FIN_WAIT"
            ELSE IF HasFlag(flags, TCP_RST) THEN "CLOSED"
            ELSE state
      [] state = "FIN_WAIT" ->
            IF HasFlag(flags, TCP_FIN) \/ HasFlag(flags, TCP_RST)
            THEN "CLOSED" ELSE state
      [] state = "CLOSED" ->
            IF HasFlag(flags, TCP_SYN) /\ ~HasFlag(flags, TCP_ACK)
            THEN "SYN_SENT" ELSE state
      [] OTHER -> state

\* NextTcpState with the two tests of the ESTABLISHED case in the other order
NextTcpState_RstFirst(state, flags) ==
    CASE state = "UNKNOWN" ->
            IF HasFlag(flags, TCP_SYN) /\ ~HasFlag(flags, TCP_ACK)
            THEN "SYN_SENT" ELSE state
      [] state = "SYN_SENT" ->
            IF HasFlag(flags, TCP_SYN) /\ HasFlag(flags, TCP_ACK)
            THEN "SYN_RECEIVED" ELSE state
      [] state = "SYN_RECEIVED" ->
            IF HasFlag(flags, TCP_ACK) THEN "ESTABLISHED" ELSE state
      [] state = "ESTABLISHED" ->
            IF HasFlag(flags, TCP_RST) THEN "CLOSED"
            ELSE IF HasFlag(flags, TCP_FIN) THEN "FIN_WAIT"
            ELSE state
      [] state = "FIN_WAIT" ->
            IF HasFlag(flags, TCP_FIN) \/ HasFlag(flags, TCP_RST)
            THEN "CLOSED" ELSE state
      [] OTHER -> state

\* NextTcpState with the break after the SYN_SENT case missing
NextTcpState_MissingBreak(state, flags) ==
    CASE state = "UNKNOWN" ->
            IF HasFlag(flags, TCP_SYN) /\ ~HasFlag(flags, TCP_ACK)
            THEN "SYN_SENT" ELSE state
      [] state = "SYN_SENT" ->
            IF HasFlag(flags, TCP_SYN) /\ HasFlag(flags, TCP_ACK)
            THEN "ESTABLISHED" ELSE state
      [] state = "SYN_RECEIVED" ->
            IF HasFlag(flags, TCP_ACK) THEN "ESTABLISHED" ELSE state
      [] state = "ESTABLISHED" ->
            IF HasFlag(flags, TCP_FIN) THEN "FIN_WAIT"
            ELSE IF HasFlag(flags, TCP_RST) THEN "CLOSED"
            ELSE state
      [] state = "FIN_WAIT" ->
            IF HasFlag(flags, TCP_FIN) \/ HasFlag(flags, TCP_RST)
            THEN "CLOSED" ELSE state
      [] OTHER -> state

\* the switch of update_tcp_state: the state that follows `state` on `flags`
NextTcpState(state, flags) ==
    CASE state = "UNKNOWN" ->
            IF HasFlag(flags, TCP_SYN) /\ ~HasFlag(flags, TCP_ACK)
            THEN "SYN_SENT" ELSE state
      [] state = "SYN_SENT" ->
            IF HasFlag(flags, TCP_SYN) /\ HasFlag(flags, TCP_ACK)
            THEN "SYN_RECEIVED" ELSE state
      [] state = "SYN_RECEIVED" ->
            IF HasFlag(flags, TCP_ACK) THEN "ESTABLISHED" ELSE state
      [] state = "ESTABLISHED" ->
            IF HasFlag(flags, TCP_FIN) THEN "FIN_WAIT"
            ELSE IF HasFlag(flags, TCP_RST) THEN "CLOSED"
            ELSE state
      [] state = "FIN_WAIT" ->
            IF HasFlag(flags, TCP_FIN) \/ HasFlag(flags, TCP_RST)
            THEN "CLOSED" ELSE state
      [] OTHER -> state

update_tcp_state(flow, flags) ==
    [flow EXCEPT !.state = NextTcpState(flow.state, flags)]

\* if (packet.has_tcp) { ... }
UpdateTcp(flow, packet) ==
    IF packet.has_tcp
    THEN update_tcp_state(CountFlags(flow, packet.tcp_header.flags),
                          packet.tcp_header.flags)
    ELSE flow

\* flow.last_seen = packet.timestamp
Touch(flow, packet) == [flow EXCEPT !.last_seen = packet.timestamp]

\* flow.duration = duration_cast<milliseconds>(last_seen - start_time) / 1000.0
SetDuration(flow) ==
    [flow EXCEPT !.duration = ToMilliseconds(flow.last_seen - flow.start_time)]

\* ApplyPacket with the duration computed before last_seen is updated
ApplyPacket_StaleDuration(flow, packet) ==
    Touch(SetDuration(UpdateTcp(AddPacket(flow, packet, InterArrival(flow, packet)),
                                packet)),
          packet)

\* update, from "FlowStats& flow = it->second" to its end
ApplyPacket(flow, packet) ==
    SetDuration(
        Touch(UpdateTcp(AddPacket(flow, packet, InterArrival(flow, packet)),
                        packet),
              packet))

\* a std::unordered_map with no entries
EmptyTable == [k \in {} |-> 0]

\* is_expired with the age taken from start_time
is_expired_FromStart(flow, t) ==
    \/ ToSeconds(t - flow.start_time) > timeout_seconds_
    \/ flow.state = "CLOSED"

is_expired(flow, t) ==
    \/ ToSeconds(t - flow.last_seen) > timeout_seconds_
    \/ flow.state = "CLOSED"

\* the loop of cleanup_expired: the entries it keeps
Sweep(conns, t) ==
    [k \in {x \in DOMAIN conns : ~is_expired(conns[x], t)} |-> conns[k]]

\* update without the cleanup at capacity
Admit_NoCleanup(conns, t) == conns

\* if (connections_.size() >= max_connections_) cleanup_expired();
Admit(conns, t) ==
    IF Cardinality(DOMAIN conns) >= max_connections_ THEN Sweep(conns, t) ELSE conns

RECURSIVE TablePackets(_)
\* packets held in the table's sample vectors (used only to bound the model)
TablePackets(conns) ==
    IF DOMAIN conns = {} THEN 0
    ELSE LET k == CHOOSE x \in DOMAIN conns : TRUE
         IN  conns[k].fwd_packets + conns[k].bwd_packets
             + TablePackets([x \in DOMAIN conns \ {k} |-> conns[x]])

\* UpdateFlowTable with a packet on a CLOSED entry starting the flow afresh
UpdateFlowTable_ReplaceClosed(packet) ==
    LET key == create_key(packet)
        isNew == key \notin DOMAIN connections_ \/ connections_[key].state = "CLOSED"
        table == IF isNew THEN Admit(connections_, now) ELSE connections_
        flow == ApplyPacket(IF isNew THEN NewFlow(packet) ELSE connections_[key],
                            packet)
    IN  /\ TablePackets(connections_) < MaxTablePackets
        /\ IF isNew
           THEN total_connections_ < MaxTotalConnections
           ELSE connections_[key].fwd_packets < MaxFlowPackets
        /\ connections_' =
              [k \in DOMAIN table \cup {key} |-> IF k = key THEN flow ELSE table[k]]
        /\ total_connections_' = IF isNew THEN total_connections_ + 1
                                          ELSE total_connections_
        /\ expired_connections_' = expired_connections_
              + Cardinality(DOMAIN connections_) - Cardinality(DOMAIN table)

\* what update does to the members of the tracker
UpdateFlowTable(packet) ==
    LET key == create_key(packet)
        isNew == key \notin DOMAIN connections_
        table == IF isNew THEN Admit(connections_, now) ELSE connections_
        flow == ApplyPacket(IF isNew THEN NewFlow(packet) ELSE connections_[key],
                            packet)
    IN  /\ TablePackets(connections_) < MaxTablePackets
        /\ IF isNew
           THEN total_connections_ < MaxTotalConnections
           ELSE connections_[key].fwd_packets < MaxFlowPackets
        /\ connections_' =
              [k \in DOMAIN table \cup {key} |-> IF k = key THEN flow ELSE table[k]]
        /\ total_connections_' = IF isNew THEN total_connections_ + 1
                                          ELSE total_connections_
        /\ expired_connections_' = expired_connections_
              + Cardinality(DOMAIN connections_) - Cardinality(DOMAIN table)

update(packet) ==
    /\ UpdateFlowTable(packet)
    /\ UNCHANGED <<mainVars, now, pipelineVars, probe>>

cleanup_expired ==
    /\ connections_' = Sweep(connections_, now)
    /\ expired_connections_' = expired_connections_
          + Cardinality(DOMAIN connections_)
          - Cardinality(DOMAIN Sweep(connections_, now))
    /\ UNCHANGED <<mainVars, total_connections_, now, pipelineVars, probe>>

clear ==
    /\ connections_' = EmptyTable
    /\ UNCHANGED <<mainVars, total_connections_, expired_connections_, now, pipelineVars, probe>>

\* the wall clock advances between operations; it is read at these instants
ClockValues ==
    {0, timeout_seconds_ * TicksPerSec + 1, (timeout_seconds_ + 1) * TicksPerSec}

Tick ==
    /\ \E t \in ClockValues : t > now /\ now' = t
    /\ UNCHANGED <<mainVars, connections_, total_connections_, expired_connections_,
                   pipelineVars, probe>>

----------------------------------------------------------------------------
(* Packets handed to the tracker: the ParsedPacket of a decoded frame *)

\* an Ethernet II header and an IPv4 header of ihl words, then `rest`
EthIpFrame(ethertype, version, ihl, protocol, src, dst, rest) ==
    Zeros(12) \o <<ethertype \div 256, ethertype % 256>>
        \o <<version * 16 + ihl, 0, 0, 0, 0, 0, 0, 0, 64, protocol, 0, 0>>
        \o src \o dst
        \o Zeros(IF ihl > 5 THEN ihl * 4 - 20 ELSE 0)
        \o rest

\* a TCP header of data_offset words carrying flag byte `flags`, then payload
TcpSegment(sport, dport, data_offset, flags, payload) ==
    <<sport \div 256, sport % 256, dport \div 256, dport % 256>>
        \o Zeros(8) \o <<data_offset * 16, flags>> \o Zeros(6)
        \o Zeros(IF data_offset > 5 THEN data_offset * 4 - 20 ELSE 0)
        \o payload

UdpDatagram(sport, dport, payload) ==
    <<sport \div 256, sport % 256, dport \div 256, dport % 256>>
        \o <<(8 + Len(payload)) \div 256, (8 + Len(payload)) % 256, 0, 0>>
        \o payload

TcpFrame(src, dst, sport, dport, flags, payload) ==
    EthIpFrame(ETHERTYPE_IPV4, 4, 5, IPPROTO_TCP_NUM, src, dst,
               TcpSegment(sport, dport, 5, flags, payload))

UdpFrame(src, dst, sport, dport, payload) ==
    EthIpFrame(ETHERTYPE_IPV4, 4, 5, IPPROTO_UDP_NUM, src, dst,
               UdpDatagram(sport, dport, payload))

\* the first n bytes of a frame
Truncated(frame, n) == SubSeq(frame, 1, n)

Client == <<10, 0, 0, 5>>
Server == <<10, 0, 0, 10>>

\* the ParsedPacket of a frame of len bytes captured at ts
TcpPacket(src, dst, sport, dport, flags, ts, len) ==
    LET frame == TcpFrame(src, dst, sport, dport, flags, Zeros(len - 54))
    IN  Decode(frame, Len(frame), ts, 0).packet

UdpPacket(src, dst, sport, dport, ts, len) ==
    LET frame == UdpFrame(src, dst, sport, dport, Zeros(len - 42))
    IN  Decode(frame, Len(frame), ts, 0).packet

\* 10.0.0.5:40000 to 10.0.0.10:22, and the reverse direction
ClientPackets(flagset, stamps, lens) ==
    {TcpPacket(Client, Server, 40000, 22, f, ts, len) :
        f \in flagset, ts \in stamps, len \in lens}

ServerPackets(flagset, stamps, lens) ==
    {TcpPacket(Server, Client, 22, 40000, f, ts, len) :
        f \in flagset, ts \in stamps, len \in lens}

DnsPackets(stamps, lens) ==
    {UdpPacket(Client, Server, 5353, 53, ts, len) : ts \in stamps, len \in lens}

\* capture timestamps: the epoch and an instant timeout_seconds_ + 1 later
AdmitStamps == {0, (timeout_seconds_ + 1) * TicksPerSec}

\* SYN, and a byte that takes every later transition up to CLOSED
AdmitFlags == {TCP_SYN, TCP_SYN + TCP_ACK + TCP_RST}

AdmitPackets ==
    ClientPackets(AdmitFlags, AdmitStamps, {60})
        \cup ServerPackets({TCP_SYN}, {0}, {60})
        \cup DnsPackets(AdmitStamps, {60})

\* capture timestamps with sub-millisecond parts, in any order
TimingStamps == 0 .. 5

TimingPackets ==
    ClientPackets({TCP_ACK}, TimingStamps, {60})
        \cup DnsPackets({0}, {60, 90})

HandshakeFlags ==
    {TCP_SYN, TCP_SYN + TCP_ACK, TCP_ACK, TCP_FIN, TCP_RST, TCP_FIN + TCP_RST}

HandshakePackets ==
    ClientPackets(HandshakeFlags, {0}, {60}) \cup DnsPackets({0}, {60})

----------------------------------------------------------------------------
(* Specifications *)

vars == <<trackerVars, pipelineVars, mainVars, probe>>

\* NIDSConfig: the members packet_handler tests (--no-signatures, --no-connections)
NIDSConfig(enable_signatures, track_connections) ==
    [enable_signatures |-> enable_signatures, track_connections |-> track_connections]

ProbeIdle == [state |-> "UNKNOWN", has_tcp |-> FALSE, flags |-> 0, result |-> "idle"]

Severities == {"LOW", "MEDIUM", "HIGH", "CRITICAL"}

\* the constructors of ConnectionTracker, PacketParser, RuleEngine, SignatureIDS
Constructed ==
    /\ connections_ = EmptyTable
    /\ total_connections_ = 0
    /\ expired_connections_ = 0
    /\ now = 0
    /\ packets_parsed_ = 0
    /\ parse_errors_ = 0
    /\ next_packet_id_ = 1
    /\ packets_evaluated_ = 0
    /\ alerts_generated_ = 0
    /\ rule_matches_ = 0
    /\ next_alert_id_ = 1
    /\ stats_ = [ total_packets |-> 0, total_bytes |-> 0, tcp_packets |-> 0,
                  udp_packets |-> 0, icmp_packets |-> 0, other_packets |-> 0,
                  alerts_generated |-> 0,
                  alerts_by_severity |-> [v \in Severities |-> 0],
                  packets_per_second |-> <<0, 1>>, mbits_per_second |-> <<0, 1>>,
                  start_time |-> 0 ]
    /\ alert_log = << >>
    /\ zmq_pub = [connected_ |-> FALSE, sent_count_ |-> 0, error_count_ |-> 0]
    /\ stop_capture = FALSE
    /\ nids_pc = "poll"
    /\ dispatch_left = 0
    /\ g_running = TRUE
    /\ capture_pc = "idle"
    /\ stats_pc = "idle"

Init ==
    /\ Constructed
    /\ config = NIDSConfig(TRUE, TRUE)
    /\ rules_ = << >>
    /\ probe = ProbeIdle

TrackerNext(packets) ==
    \/ \E packet \in packets : update(packet)
    \/ cleanup_expired
    \/ clear
    \/ Tick

Next == TrackerNext(AdmitPackets)
Spec == Init /\ [][Next]_vars

NextTiming == TrackerNext(TimingPackets)
SpecTiming == Init /\ [][NextTiming]_vars

NextHandshake == TrackerNext(HandshakePackets)
SpecHandshake == Init /\ [][NextHandshake]_vars

\* the packet is not older than the last one of its flow
InOrder(packet) ==
    LET key == create_key(packet)
    IN  key \in DOMAIN connections_ => connections_[key].last_seen <= packet.timestamp

\* a capture hands over the packets of a flow in the order of their timestamps
NextOrdered ==
    \/ \E packet \in TimingPackets : InOrder(packet) /\ update(packet)
    \/ cleanup_expired
    \/ clear
    \/ Tick

SpecOrdered == Init /\ [][NextOrdered]_vars

\* update, with probe keeping the packet of the call, whether find(key) found
\* an entry, and the state that entry was in
tracked_update(packet) ==
    LET key == create_key(packet)
        found == key \in DOMAIN connections_
    IN  /\ UpdateFlowTable(packet)
        /\ probe' = [result |-> "updated", packet |-> packet, found |-> found,
                     before |-> IF found THEN connections_[key].state ELSE "UNKNOWN"]
        /\ UNCHANGED <<mainVars, now, pipelineVars>>

\* one 5-tuple: SYN, and the byte that takes every later transition up to
\* CLOSED, at the epoch and timeout_seconds_ + 1 later
ReusePackets == ClientPackets(AdmitFlags, AdmitStamps, {60})

NextReuse ==
    \/ \E packet \in ReusePackets : tracked_update(packet)
    \/ cleanup_expired
    \/ clear
    \/ Tick

SpecReuse == Init /\ [][NextReuse]_vars

----------------------------------------------------------------------------
(* sids_main.cpp: SignatureIDS *)

SeverityCounts(alerts, counts) ==
    [v \in Severities |->
        counts[v] + Cardinality({i \in 1 .. Len(alerts) : alerts[i].severity = v})]

\* handle_alert called for the alerts of one packet, newest log entry first
handle_alerts_NewestFirst(log, alerts) == alerts \o log

\* "for (const auto& alert : alerts) handle_alert(alert)": the log after it
handle_alerts(log, alerts) == log \o alerts

\* the body of the capture loop (process_pcap_file and capture_live have the
\* same one) on a frame the capture returned; probe keeps the frame and the
\* ParsedPacket
LoopBody(data, timestamp) ==
    LET parsed == Decode(data, Len(data), timestamp, next_packet_id_)
        packet == parsed.packet
        alerts == EvaluateFrom(rules_, 1, packet, next_alert_id_)
    IN  /\ next_packet_id_ <= MaxPackets
        \* parser_->parse(data, header->caplen, timestamp)
        /\ next_packet_id_' = next_packet_id_ + 1
        /\ packets_parsed_' = IF parsed.ok THEN packets_parsed_ + 1 ELSE packets_parsed_
        /\ parse_errors_' = IF parsed.ok THEN parse_errors_ ELSE parse_errors_ + 1
        \* rule_engine_->evaluate(packet)
        /\ packets_evaluated_' = packets_evaluated_ + 1
        /\ rule_matches_' = rule_matches_ + Len(alerts)
        /\ next_alert_id_' = next_alert_id_ + Len(alerts)
        /\ alerts_generated_' = alerts_generated_ + Len(alerts)
        \* the statistics and handle_alert
        /\ stats_' = [stats_ EXCEPT
              !.total_packets = @ + 1,
              !.total_bytes = @ + Len(data),
              !.tcp_packets = IF packet.has_tcp THEN @ + 1 ELSE @,
              !.udp_packets = IF ~packet.has_tcp /\ packet.has_udp THEN @ + 1 ELSE @,
              !.icmp_packets =
                  IF ~packet.has_tcp /\ ~packet.has_udp
                     /\ packet.ip_header.protocol = 1 THEN @ + 1 ELSE @,
              !.other_packets =
                  IF ~packet.has_tcp /\ ~packet.has_udp
                     /\ packet.ip_header.protocol # 1 THEN @ + 1 ELSE @,
              !.alerts_generated = @ + Len(alerts),
              !.alerts_by_severity = SeverityCounts(alerts, @)]
        /\ alert_log' = handle_alerts(alert_log, alerts)
        /\ probe' = [result |-> "processed", frame |-> data, packet |-> packet]
        /\ UNCHANGED <<rules_, trackerVars>>

\* one turn of the loop of process_pcap_file: pcap_next_ex returned a frame and
\* g_running is set.  The clock stands still while a file is replayed, so the
\* print_progress of every second is never due.
process_pcap_packet(data, timestamp) ==
    /\ g_running
    /\ LoopBody(data, timestamp)
    /\ UNCHANGED mainVars

\* what the flag members load_rules leaves unassigned may hold
JunkFlagPairs == {<<0, 0>>, <<TCP_SYN, 0>>}

\* SignatureIDS constructed and initialize() returned
InitSids ==
    /\ Constructed
    /\ config = NIDSConfig(TRUE, TRUE)
    /\ \E junk \in [{2, 4, 5, 6} -> JunkFlagPairs] : rules_ = DefaultRules(junk)
    /\ probe = ProbeIdle

Str_attack == <<120, 39, 32, 79, 82, 32, 49, 61, 49>>    \* "x' OR 1=1"

Str_sqli == <<105, 100, 61, 49, 32, 85, 78, 73, 79, 78, 32, 83, 69, 76, 69, 67, 84, 32, 49>>    \* "id=1 UNION SELECT 1"

\* 10.0.0.5:40000 to 10.0.0.10:22, SYN only
SshSynFrame == TcpFrame(Client, Server, 40000, 22, TCP_SYN, << >>)

\* an HTTP request to 10.0.0.10:80 carrying "id=1 UNION SELECT 1"
SqlInjectionFrame ==
    TcpFrame(Client, Server, 40000, 80, TCP_PSH + TCP_ACK, Str_sqli)

\* frames of the capture: a SYN to 10.0.0.10:22, a SYN to the port whose two
\* bytes are those of 22 swapped, HTTP requests to port 80 and to the port
\* whose bytes are those of 80 swapped, a DNS query, an ICMP
\* packet, an ARP frame, an IP version 6 header, and 20-byte prefixes
SidsFrames ==
    { SshSynFrame,
      SqlInjectionFrame,
      TcpFrame(Client, Server, 40000, 5632, TCP_SYN, << >>),
      TcpFrame(Client, Server, 40000, 20480, TCP_PSH + TCP_ACK, Str_attack),
      UdpFrame(Client, Server, 5353, 53, Zeros(4)),
      EthIpFrame(ETHERTYPE_IPV4, 4, 5, IPPROTO_ICMP_NUM, Client, Server, Zeros(8)),
      EthIpFrame(2054, 4, 5, IPPROTO_TCP_NUM, Client, Server, Zeros(20)),
      EthIpFrame(ETHERTYPE_IPV4, 6, 5, IPPROTO_TCP_NUM, Client, Server, Zeros(20)),
      Truncated(TcpFrame(Client, Server, 40000, 5632, TCP_SYN, << >>), 20),
      Truncated(UdpFrame(Client, Server, 5353, 53, Zeros(4)), 20) }

NextSids == \E data \in SidsFrames : process_pcap_packet(data, 0)
SpecSids == InitSids /\ [][NextSids]_vars

----------------------------------------------------------------------------
(* The TCP state machine on its own: every state, every flag byte *)

\* update applied to a flow in probe.state and a packet with probe.flags
probe_update ==
    /\ probe.result = "none"
    /\ LET packet == IF probe.has_tcp
                     THEN TcpPacket(Client, Server, 40000, 22, probe.flags, 0, 60)
                     ELSE UdpPacket(Client, Server, 5353, 53, 0, 60)
           flow == [NewFlow(packet) EXCEPT !.state = probe.state]
       IN  probe' = [probe EXCEPT !.result = ApplyPacket(flow, packet).state]
    /\ UNCHANGED <<mainVars, trackerVars, pipelineVars>>

InitProbe ==
    /\ Constructed
    /\ config = NIDSConfig(TRUE, TRUE)
    /\ rules_ = << >>
    /\ probe \in
          {[state |-> s, has_tcp |-> TRUE, flags |-> f, result |-> "none"] :
              s \in ConnectionState, f \in 0 .. 63}
          \cup {[state |-> s, has_tcp |-> FALSE, flags |-> 0, result |-> "none"] :
              s \in ConnectionState}

NextProbe == probe_update
SpecProbe == InitProbe /\ [][NextProbe]_vars

----------------------------------------------------------------------------
(* RuleEngine on its own *)

add_rule(rule) ==
    /\ Len(rules_) < MaxRules
    /\ rules_' = Append(rules_, rule)
    /\ UNCHANGED <<mainVars, packets_evaluated_, alerts_generated_, rule_matches_,
                   next_alert_id_, trackerVars, parserVars, sidsVars, probe>>

\* the loop of enable_rule: the first rule with this id, then break
EnableFirst(rules, rule_id, enabled) ==
    LET hits == {i \in 1 .. Len(rules) : rules[i].rule_id = rule_id}
    IN  IF hits = {} THEN rules
        ELSE [rules EXCEPT ![CHOOSE i \in hits : \A j \in hits : i <= j].enabled = enabled]

enable_rule(rule_id, enabled) ==
    /\ rules_' = EnableFirst(rules_, rule_id, enabled)
    /\ UNCHANGED <<mainVars, packets_evaluated_, alerts_generated_, rule_matches_,
                   next_alert_id_, trackerVars, parserVars, sidsVars, probe>>

\* evaluate with "alerts_generated_ = alerts.size()" as its last assignment
evaluate_LastBatch(packet) ==
    LET alerts == EvaluateFrom(rules_, 1, packet, next_alert_id_)
    IN  /\ packets_evaluated_ < MaxPackets
        /\ packets_evaluated_' = packets_evaluated_ + 1
        /\ rule_matches_' = rule_matches_ + Len(alerts)
        /\ next_alert_id_' = next_alert_id_ + Len(alerts)
        /\ alerts_generated_' = Len(alerts)
        /\ alert_log' = alert_log \o alerts
        /\ probe' = [result |-> "evaluated", packet |-> packet]
        /\ UNCHANGED <<mainVars, rules_, trackerVars, parserVars, stats_>>

\* evaluate.  The alerts it returns are appended to alert_log, and probe keeps
\* the packet of the call.
evaluate(packet) ==
    LET alerts == EvaluateFrom(rules_, 1, packet, next_alert_id_)
    IN  /\ packets_evaluated_ < MaxPackets
        /\ packets_evaluated_' = packets_evaluated_ + 1
        /\ rule_matches_' = rule_matches_ + Len(alerts)
        /\ next_alert_id_' = next_alert_id_ + Len(alerts)
        /\ alerts_generated_' = alerts_generated_ + Len(alerts)
        /\ alert_log' = alert_log \o alerts
        /\ probe' = [result |-> "evaluated", packet |-> packet]
        /\ UNCHANGED <<mainVars, rules_, trackerVars, parserVars, stats_>>

Str_passwd == <<112, 97, 115, 115, 119, 100>>    \* "passwd"

\* rules 1001 and 1003 of load_rules, a rule on port 80 with one regular
\* expression, and a rule for every IPv4 packet that asks for SYN without ACK
EngineRules ==
    { DefaultRules([r \in {2, 4, 5, 6} |-> <<0, 0>>])[i] : i \in {1, 3} }
        \cup { [Rule(2001, "Password File", "passwd in request", "TCP", {80},
                     <<0, 0>>, << >>, "HIGH", "alert", TRUE)
                   EXCEPT !.regex_patterns = <<Str_passwd>>],
               Rule(2002, "Bare SYN", "SYN without ACK", "IPV4", {},
                    <<TCP_SYN + TCP_ACK, TCP_SYN>>, << >>, "LOW", "alert", TRUE) }

\* the port whose value get_dst_port returns as `port`
OnWire(port) == Ntohs(port)

\* packets 1 to 3 of a capture: a SYN to port 22, a DNS query, and an HTTP
\* request carrying "x' OR 1=1"
EnginePackets ==
    { Decode(TcpFrame(Client, Server, 40000, OnWire(22), TCP_SYN, << >>),
             54, 0, 1).packet,
      Decode(UdpFrame(Client, Server, 5353, OnWire(53), Zeros(4)), 46, 0, 2).packet,
      Decode(TcpFrame(Client, Server, 40000, OnWire(80), TCP_PSH + TCP_ACK, Str_attack),
             63, 0, 3).packet }

NextEngine ==
    \/ \E rule \in EngineRules : add_rule(rule)
    \/ \E rule \in EngineRules, enabled \in BOOLEAN : enable_rule(rule.rule_id, enabled)
    \/ \E packet \in EnginePackets : evaluate(packet)

SpecEngine == Init /\ [][NextEngine]_vars

----------------------------------------------------------------------------
(* Rules whose regular expressions do not compile *)

Str_unclosed == <<40, 112, 97, 115, 115>>    \* "(pass"
Str_unclosed_class == <<40, 91, 97>>         \* "([a"

\* a rule for port 80 whose two regular expressions both fail to compile, and
\* rule 1001 of load_rules
RegexRules ==
    { [Rule(2003, "Broken Regex", "patterns that do not compile", "TCP", {80},
            <<0, 0>>, << >>, "HIGH", "alert", TRUE)
          EXCEPT !.regex_patterns = <<Str_unclosed, Str_unclosed_class>>],
      DefaultRules([r \in {2, 4, 5, 6} |-> <<0, 0>>])[1] }

\* a SYN to port 22, and HTTP requests to port 80 with and without "passwd"
RegexPackets ==
    { Decode(TcpFrame(Client, Server, 40000, OnWire(22), TCP_SYN, << >>),
             54, 0, 1).packet,
      Decode(TcpFrame(Client, Server, 40000, OnWire(80), TCP_PSH + TCP_ACK, Str_passwd),
             60, 0, 2).packet,
      Decode(TcpFrame(Client, Server, 40000, OnWire(80), TCP_PSH + TCP_ACK, Str_attack),
             63, 0, 3).packet }

NextRegex ==
    \/ \E rule \in RegexRules : add_rule(rule)
    \/ \E rule \in RegexRules, enabled \in BOOLEAN : enable_rule(rule.rule_id, enabled)
    \/ \E packet \in RegexPackets : evaluate(packet)

SpecRegex == Init /\ [][NextRegex]_vars

----------------------------------------------------------------------------
(* Content matching: payloads around the 1024-byte scan limit *)

\* rule 1002 of load_rules: "union select", "or 1=1", "' or '1'='1"
ContentRules == { DefaultRules([r \in {2, 4, 5, 6} |-> <<0, 0>>])[2] }

Str_hello == <<104, 101, 108, 108, 111>>    \* "hello"

\* n bytes 'a'
Filler(n) == [i \in 1 .. n |-> 97]

\* "x' OR 1=1", "hello", no payload, and "or 1=1" behind 1024, 1020 and 1018
\* other bytes: beyond the scan limit, across it, and ending on it
ContentPayloads ==
    << Str_attack, Str_hello, << >>,
       Filler(PayloadScanLimit) \o Str_or_1_1,
       Filler(PayloadScanLimit - 4) \o Str_or_1_1,
       Filler(PayloadScanLimit - 6) \o Str_or_1_1 >>

\* packet k of the capture carries payload k to 10.0.0.10:80
ContentPackets ==
    { LET frame == TcpFrame(Client, Server, 40000, OnWire(80), TCP_PSH + TCP_ACK,
                            ContentPayloads[k])
      IN  Decode(frame, Len(frame), 0, k).packet : k \in 1 .. Len(ContentPayloads) }

NextContent ==
    \/ \E rule \in ContentRules : add_rule(rule)
    \/ \E packet \in ContentPackets : evaluate(packet)

SpecContent == Init /\ [][NextContent]_vars

----------------------------------------------------------------------------
(* PacketParser on its own *)

\* PacketParser::parse on a frame that sits in the capture buffer.  `stale` is
\* what the buffer holds after the frame's last byte: a read past `length`
\* returns those bytes.  probe keeps the frame and the ParsedPacket returned.
\* parse taking a packet_id only for the frames it decodes
parse_IdOnSuccess(frame, stale, timestamp) ==
    LET parsed == Decode(frame \o stale, Len(frame), timestamp, next_packet_id_)
    IN  /\ next_packet_id_ <= MaxPackets
        /\ next_packet_id_' = IF parsed.ok THEN next_packet_id_ + 1 ELSE next_packet_id_
        /\ packets_parsed_' = IF parsed.ok THEN packets_parsed_ + 1 ELSE packets_parsed_
        /\ parse_errors_' = IF parsed.ok THEN parse_errors_ ELSE parse_errors_ + 1
        /\ probe' = [result |-> "parsed", frame |-> frame, packet |-> parsed.packet]
        /\ UNCHANGED <<mainVars, trackerVars, engineVars, sidsVars>>

parse(frame, stale, timestamp) ==
    LET parsed == Decode(frame \o stale, Len(frame), timestamp, next_packet_id_)
    IN  /\ next_packet_id_ <= MaxPackets
        /\ next_packet_id_' = next_packet_id_ + 1
        /\ packets_parsed_' = IF parsed.ok THEN packets_parsed_ + 1 ELSE packets_parsed_
        /\ parse_errors_' = IF parsed.ok THEN parse_errors_ ELSE parse_errors_ + 1
        /\ probe' = [result |-> "parsed", frame |-> frame, packet |-> parsed.packet]
        /\ UNCHANGED <<mainVars, trackerVars, engineVars, sidsVars>>

\* what may follow a frame in the buffer: zeroes, or bytes 0x12 left by an
\* earlier capture
StaleBytes == {Zeros(64), [i \in 1 .. 64 |-> 18]}

WebRequest == TcpFrame(Client, Server, 40000, 80, TCP_PSH + TCP_ACK, Str_attack)
DnsQuery == UdpFrame(Client, Server, 5353, 53, Zeros(4))

Prefixes(frame) == {Truncated(frame, n) : n \in 0 .. Len(frame)}

\* a SYN segment behind an IPv4 header that announces ihl words
IhlFrame(ihl, protocol) ==
    EthIpFrame(ETHERTYPE_IPV4, 4, ihl, protocol, Client, Server,
               TcpSegment(40000, 22, 5, TCP_SYN, << >>))

\* a segment of four payload bytes whose header announces data_offset words
DataOffsetFrame(data_offset) ==
    EthIpFrame(ETHERTYPE_IPV4, 4, 5, IPPROTO_TCP_NUM, Client, Server,
               TcpSegment(40000, 22, data_offset, TCP_PSH + TCP_ACK, <<1, 2, 3, 4>>))

\* every prefix of a TCP and of a UDP frame; ports whose two bytes differ and
\* ports whose two bytes are equal; IPv4, ARP and IPv6 ethertypes with every
\* version nibble; every IHL nibble, whole and cut inside the announced header;
\* every data offset nibble
ParseFrames ==
    Prefixes(WebRequest) \cup Prefixes(DnsQuery)
        \cup {TcpFrame(Client, Server, sport, dport, TCP_SYN, << >>) :
                 sport \in {40000, 257}, dport \in {22, 5632}}
        \cup {UdpFrame(Client, Server, 257, 53, Zeros(4))}
        \cup {EthIpFrame(ethertype, version, 5, IPPROTO_TCP_NUM, Client, Server,
                         TcpSegment(40000, 22, 5, TCP_SYN, << >>)) :
                 ethertype \in {ETHERTYPE_IPV4, 2054, 34525}, version \in 0 .. 15}
        \cup {Truncated(IhlFrame(ihl, protocol), n) :
                 ihl \in 0 .. 15, protocol \in {IPPROTO_TCP_NUM, IPPROTO_UDP_NUM},
                 n \in {34, 42, 54}}
        \cup {IhlFrame(ihl, IPPROTO_TCP_NUM) : ihl \in 0 .. 15}
        \cup {DataOffsetFrame(data_offset) : data_offset \in 0 .. 15}

NextParse == \E frame \in ParseFrames, stale \in StaleBytes : parse(frame, stale, 0)
SpecParse == Init /\ [][NextParse]_vars

----------------------------------------------------------------------------
(* sids_main.cpp: capture_live, its capture loop and its stats_thread *)

\* Statistics::update.  A rate is kept as <<count, seconds>>, the quotient the
\* code stores; packets and bytes are the values read from total_packets and
\* total_bytes
StatisticsUpdate(stats, packets, bytes, t) ==
    LET duration == ToSeconds(t - stats.start_time)
    IN  IF duration > 0
        THEN [stats EXCEPT !.packets_per_second = <<packets, duration>>,
                           !.mbits_per_second = <<bytes * 8, duration * 1000000>>]
        ELSE stats

\* the capture loop stands in its body, where it writes the counters of stats_
CaptureWritesStatistics == capture_pc = "body"

\* what a read of a counter of stats_ by stats_thread may return: the counter,
\* or, when the capture loop is writing stats_ at the same time, any value
RacyRead(value, values) == IF CaptureWritesStatistics THEN values ELSE {value}

\* signal_handler of sids_main.cpp
signal_handler_sids ==
    /\ g_running
    /\ g_running' = FALSE
    /\ UNCHANGED <<trackerVars, pipelineVars, zmq_pub, nidsVars, capture_pc, stats_pc,
                   probe>>

\* capture_live up to its loop: the device is open and stats_thread started
capture_live ==
    /\ capture_pc = "idle"
    /\ capture_pc' = "next"
    /\ stats_pc' = "test"
    /\ UNCHANGED <<trackerVars, pipelineVars, zmq_pub, nidsVars, g_running, probe>>

\* "while ((result = pcap_next_ex(...)) >= 0 && g_running)" with a frame returned
capture_next ==
    /\ capture_pc = "next"
    /\ g_running => next_packet_id_ <= MaxPackets
    /\ capture_pc' = IF g_running THEN "body" ELSE "join"
    /\ UNCHANGED <<trackerVars, pipelineVars, zmq_pub, nidsVars, g_running, stats_pc,
                   probe>>

\* the body of the capture loop on the frame returned
capture_body(data) ==
    /\ capture_pc = "body"
    /\ LoopBody(data, now)
    /\ capture_pc' = "next"
    /\ UNCHANGED <<zmq_pub, nidsVars, g_running, stats_pc>>

\* stats_thread.join(), then the final stats_.update() and print_final_stats
capture_join ==
    /\ capture_pc = "join"
    /\ stats_pc = "done"
    /\ capture_pc' = "done"
    /\ stats_' = StatisticsUpdate(stats_, stats_.total_packets, stats_.total_bytes, now)
    /\ UNCHANGED <<trackerVars, parserVars, engineVars, alert_log, zmq_pub, nidsVars,
                   g_running, stats_pc, probe>>

\* stats_thread_test with the flag read once, before the loop
stats_thread_test_Stale ==
    /\ stats_pc = "test"
    /\ stats_pc' = "sleep"
    /\ UNCHANGED <<trackerVars, pipelineVars, zmq_pub, nidsVars, g_running, capture_pc,
                   probe>>

\* stats_thread: "while (g_running)"
stats_thread_test ==
    /\ stats_pc = "test"
    /\ stats_pc' = IF g_running THEN "sleep" ELSE "done"
    /\ UNCHANGED <<trackerVars, pipelineVars, zmq_pub, nidsVars, g_running, capture_pc,
                   probe>>

\* stats_thread: sleep_for(5 s) has returned, "if (g_running)"
stats_thread_wake ==
    /\ stats_pc = "sleep"
    /\ stats_pc' = IF g_running THEN "update" ELSE "test"
    /\ UNCHANGED <<trackerVars, pipelineVars, zmq_pub, nidsVars, g_running, capture_pc,
                   probe>>

\* stats_thread: stats_.update(), then print_progress(), which calls
\* stats_.update() again and prints the counters.  No lock is taken and the
\* members of Statistics are plain integers and doubles.
stats_thread_update ==
    /\ stats_pc \in {"update", "print"}
    /\ stats_pc' = IF stats_pc = "update" THEN "print" ELSE "test"
    /\ \E packets \in RacyRead(stats_.total_packets, 0 .. MaxPackets),
          bytes \in RacyRead(stats_.total_bytes, {0, stats_.total_bytes}) :
            stats_' = StatisticsUpdate(stats_, packets, bytes, now)
    /\ UNCHANGED <<trackerVars, parserVars, engineVars, alert_log, zmq_pub, nidsVars,
                   g_running, capture_pc, probe>>

\* a SYN the engine sees as sent to port 22
LiveFrames == {TcpFrame(Client, Server, 40000, OnWire(22), TCP_SYN, << >>)}

NextLive ==
    \/ capture_live
    \/ capture_next
    \/ \E data \in LiveFrames : capture_body(data)
    \/ capture_join
    \/ stats_thread_test
    \/ stats_thread_wake
    \/ stats_thread_update
    \/ signal_handler_sids
    \/ Tick

SpecLive == InitSids /\ [][NextLive]_vars

\* pcap_next_ex returns an error: the loop ends whatever g_running holds
capture_error ==
    /\ capture_pc = "next"
    /\ capture_pc' = "join"
    /\ UNCHANGED <<trackerVars, pipelineVars, zmq_pub, nidsVars, g_running, stats_pc,
                   probe>>

\* the steps of the thread that runs capture_live, once it is in its loop
CaptureThread ==
    \/ capture_next
    \/ \E data \in LiveFrames : capture_body(data)
    \/ capture_join

StatsThread ==
    \/ stats_thread_test
    \/ stats_thread_wake
    \/ stats_thread_update

NextShutdown ==
    \/ capture_live
    \/ CaptureThread
    \/ capture_error
    \/ StatsThread
    \/ signal_handler_sids

\* the step capture_body takes, told by the position of the capture loop: the
\* loop is in its body exactly when capture_body can run, and only capture_body
\* takes it from there back to pcap_next_ex
BodyDone == capture_pc = "body" /\ capture_pc' = "next"

\* pcap_next_ex returns within its 1000 ms timeout and sleep_for returns after
\* 5 s, so each thread takes its next step when it has one; no signal and no
\* read error has to arrive
SpecShutdown ==
    InitSids /\ [][NextShutdown]_vars /\ WF_vars(capture_next) /\ WF_capture_pc(BodyDone) /\ WF_vars(capture_join) /\ WF_vars(StatsThread)

----------------------------------------------------------------------------
(* nids_main.cpp: packet_handler and the capture loop of main *)

\* packets one pcap_dispatch may hand to packet_handler (100 in the source)
DispatchCount == 2

\* signal_handler of nids_main.cpp
signal_handler ==
    /\ ~stop_capture
    /\ stop_capture' = TRUE
    /\ UNCHANGED <<trackerVars, pipelineVars, zmq_pub, liveVars, config, nids_pc,
                   dispatch_left, probe>>

\* "while (!stop_capture)" and the pcap_dispatch(handle, 100, ...) it guards:
\* the call takes up to DispatchCount packets, none at the end of the file
main_loop ==
    /\ nids_pc = "poll"
    /\ IF stop_capture
       THEN nids_pc' = "stopped" /\ dispatch_left' = 0
       ELSE \E ret \in 0 .. DispatchCount :
                /\ dispatch_left' = ret
                /\ nids_pc' = IF ret = 0 THEN "stopped" ELSE "dispatch"
    /\ UNCHANGED <<trackerVars, pipelineVars, zmq_pub, liveVars, config,
                   stop_capture, probe>>

\* "if (config.enable_signatures && rule_engine)": the test does not look at
\* flow, the pointer get_flow returned
SignaturesRun_NeedFlow(cfg, flow) == cfg.enable_signatures /\ flow # "nullptr"

SignaturesRun(cfg, flow) == cfg.enable_signatures

\* packet_handler, called by pcap_dispatch for one packet of the batch.  The
\* feature export and the publisher are off unless --export-csv or --zmq is
\* given; get_flow refreshes computed members this model does not hold.
\* probe keeps the frame, the ParsedPacket, the flow pointer and whether the
\* table was at capacity when the packet arrived.
packet_handler(data, timestamp) ==
    LET parsed == Decode(data, Len(data), timestamp, next_packet_id_)
        packet == parsed.packet
        tracked == parsed.ok /\ config.track_connections
        flow == IF tracked THEN create_key(packet) ELSE "nullptr"
        evaluated == parsed.ok /\ SignaturesRun(config, flow)
        alerts == IF evaluated THEN EvaluateFrom(rules_, 1, packet, next_alert_id_)
                  ELSE << >>
    IN  /\ nids_pc = "dispatch"
        /\ next_packet_id_ <= MaxPackets
        \* parser->parse
        /\ next_packet_id_' = next_packet_id_ + 1
        /\ packets_parsed_' = IF parsed.ok THEN packets_parsed_ + 1 ELSE packets_parsed_
        /\ parse_errors_' = IF parsed.ok THEN parse_errors_ ELSE parse_errors_ + 1
        \* conn_tracker->update and get_flow
        /\ IF tracked THEN UpdateFlowTable(packet)
           ELSE UNCHANGED <<connections_, total_connections_, expired_connections_>>
        \* rule_engine->evaluate
        /\ packets_evaluated_' = IF evaluated THEN packets_evaluated_ + 1
                                              ELSE packets_evaluated_
        /\ rule_matches_' = rule_matches_ + Len(alerts)
        /\ next_alert_id_' = next_alert_id_ + Len(alerts)
        /\ alerts_generated_' = alerts_generated_ + Len(alerts)
        \* global_stats, print_alert and log_alert_json
        /\ stats_' = [stats_ EXCEPT
              !.total_packets = @ + 1,
              !.total_bytes = @ + Len(data),
              !.tcp_packets = IF parsed.ok /\ packet.has_tcp THEN @ + 1 ELSE @,
              !.udp_packets =
                  IF parsed.ok /\ ~packet.has_tcp /\ packet.has_udp THEN @ + 1 ELSE @,
              !.icmp_packets =
                  IF parsed.ok /\ ~packet.has_tcp /\ ~packet.has_udp
                     /\ packet.ip_header.protocol = IPPROTO_ICMP_NUM THEN @ + 1 ELSE @,
              !.other_packets =
                  IF parsed.ok /\ ~packet.has_tcp /\ ~packet.has_udp
                     /\ packet.ip_header.protocol # IPPROTO_ICMP_NUM THEN @ + 1 ELSE @,
              !.alerts_generated = @ + Len(alerts),
              !.alerts_by_severity = SeverityCounts(alerts, @)]
        /\ alert_log' = handle_alerts(alert_log, alerts)
        \* back in pcap_dispatch
        /\ dispatch_left' = dispatch_left - 1
        /\ nids_pc' = IF dispatch_left = 1 THEN "housekeeping" ELSE "dispatch"
        /\ probe' = [result |-> "handled", frame |-> data, packet |-> packet,
                     ok |-> parsed.ok, flow |-> flow,
                     full |-> Cardinality(DOMAIN connections_) >= max_connections_]
        /\ UNCHANGED <<now, rules_, zmq_pub, liveVars, config, stop_capture>>

\* the end of a turn of the loop of main: print_statistics, and the cleanup of
\* expired flows when time(nullptr) % 30 == 0 and the tracker exists
housekeeping ==
    /\ nids_pc = "housekeeping"
    /\ nids_pc' = "poll"
    /\ \/ /\ config.track_connections
          /\ connections_' = Sweep(connections_, now)
          /\ expired_connections_' = expired_connections_
                + Cardinality(DOMAIN connections_)
                - Cardinality(DOMAIN Sweep(connections_, now))
       \/ UNCHANGED <<connections_, expired_connections_>>
    /\ UNCHANGED <<total_connections_, now, pipelineVars, zmq_pub, liveVars, config,
                   stop_capture, dispatch_left, probe>>

\* main after parse_arguments and initialize_components: the engine is built
\* without rules, --no-signatures and --no-connections may have been given
InitNids ==
    /\ Constructed
    /\ config \in {NIDSConfig(s, t) : s \in BOOLEAN, t \in BOOLEAN}
    /\ rules_ = << >>
    /\ probe = ProbeIdle

\* a SYN to 10.0.0.10:22, the SYN+ACK coming back, a DNS query, and a frame cut
\* inside its Ethernet header
NidsFrames ==
    { TcpFrame(Client, Server, 40000, 22, TCP_SYN, << >>),
      TcpFrame(Server, Client, 22, 40000, TCP_SYN + TCP_ACK, << >>),
      UdpFrame(Client, Server, 5353, 53, Zeros(4)),
      Truncated(TcpFrame(Client, Server, 40000, 22, TCP_SYN, << >>), 10) }

NextNids ==
    \/ signal_handler
    \/ main_loop
    \/ \E data \in NidsFrames : packet_handler(data, now)
    \/ housekeeping
    \/ Tick

SpecNids == InitNids /\ [][NextNids]_vars

----------------------------------------------------------------------------
(* protocol_decoder.cpp: decode_dns and parse_dns_name.  probe holds the    *)
(* decoder's two counters and the locals of the call in progress; payload   *)
(* byte i of the code is payload[i + 1] here.                               *)

\* decode_dns calls in a run of the model
MaxDecodes == 2

is_dns(payload, length) ==
    /\ length >= 12
    /\ LET qd_count == payload[5] * 256 + payload[6]
       IN  qd_count > 0 /\ qd_count < 100

read_uint16(data, offset) == data[offset + 1] * 256 + data[offset + 2]

\* the byte data[offset + 1] of a compression pointer whose first byte is the
\* last of the buffer
PointerLowBytes(data, offset, max_length) ==
    IF offset + 1 < max_length THEN {data[offset + 2]} ELSE {stale[1] : stale \in StaleBytes}

\* while (offset < length && payload[offset] != 0) offset += payload[offset] + 1
RECURSIVE SkipLabels(_, _, _)
SkipLabels(payload, length, offset) ==
    IF offset < length /\ payload[offset + 1] # 0
    THEN SkipLabels(payload, length, offset + payload[offset + 1] + 1)
    ELSE offset

\* the answer loop of decode_dns from its i-th round on; the value is the
\* offset it ends with
RECURSIVE SkipAnswers(_, _, _, _, _)
SkipAnswers(payload, length, offset, i, answer_count) ==
    IF i < answer_count /\ offset < length
    THEN LET after_name == IF payload[offset + 1] >= 192
                           THEN offset + 2
                           ELSE SkipLabels(payload, length, offset) + 1
             after_record == IF after_name + 10 <= length
                             THEN after_name + 10 + read_uint16(payload, after_name + 8)
                             ELSE after_name
         IN  SkipAnswers(payload, length, after_record, i + 1, answer_count)
    ELSE offset

Decoders == {"idle", "not dns", "decoded"}

\* decode_dns up to its call of parse_dns_name
decode_dns(payload) ==
    LET length == Len(payload)
    IN  /\ probe.result \in Decoders
        /\ probe.dns_decoded_ + probe.decode_errors_ < MaxDecodes
        /\ IF ~is_dns(payload, length)
           THEN probe' = [result |-> "not dns", payload |-> payload,
                          dns_decoded_ |-> probe.dns_decoded_,
                          decode_errors_ |-> probe.decode_errors_ + 1]
           ELSE probe' = [result |-> IF 12 < length THEN "parse_dns_name" ELSE "answers",
                          payload |-> payload, asked |-> 12 < length,
                          offset |-> 12, jumped |-> FALSE, original_offset |-> 12,
                          name |-> << >>,
                          dns_decoded_ |-> probe.dns_decoded_,
                          decode_errors_ |-> probe.decode_errors_]
        /\ UNCHANGED <<trackerVars, pipelineVars, mainVars>>

\* parse_dns_name leaves its loop: offset is restored after a jump
LeaveName(call, offset) ==
    [call EXCEPT !.result = "answers",
                 !.offset = IF call.jumped THEN call.original_offset ELSE offset]

\* one test of while (offset < max_length) in parse_dns_name and, when it
\* holds, one round of the loop
parse_dns_name ==
    LET data == probe.payload
        max_length == Len(data)
        offset == probe.offset
        len == data[offset + 1]
    IN  /\ probe.result = "parse_dns_name"
        /\ IF offset >= max_length
           THEN probe' = LeaveName(probe, offset)
           ELSE IF len = 0
           THEN probe' = LeaveName(probe, offset + 1)
           ELSE IF len >= 192
           THEN \E low \in PointerLowBytes(data, offset, max_length) :
                    probe' = [probe EXCEPT
                        !.original_offset = IF probe.jumped THEN @ ELSE offset + 2,
                        !.jumped = TRUE,
                        !.offset = (len % 64) * 256 + low]
           ELSE IF offset + 1 + len > max_length
           THEN probe' = LeaveName(probe, offset + 1)
           ELSE probe' = [probe EXCEPT
                    !.name = IF @ = << >>
                             THEN SubSeq(data, offset + 2, offset + 1 + len)
                             ELSE @ \o <<46>> \o SubSeq(data, offset + 2, offset + 1 + len),
                    !.offset = offset + 1 + len]
        /\ UNCHANGED <<trackerVars, pipelineVars, mainVars>>

\* decode_dns after parse_dns_name: query type and class, the answer loop,
\* dns_decoded_++ and return true
decode_dns_return ==
    LET payload == probe.payload
        length == Len(payload)
        typed == probe.asked /\ probe.offset + 4 <= length
        offset == IF typed THEN probe.offset + 4 ELSE probe.offset
        answer_count == read_uint16(payload, 6)
    IN  /\ probe.result = "answers"
        /\ probe' = [result |-> "decoded", payload |-> payload,
                     query_name |-> probe.name,
                     query_type |-> IF typed THEN read_uint16(payload, probe.offset) ELSE 0,
                     offset |-> SkipAnswers(payload, length, offset, 0, answer_count),
                     dns_decoded_ |-> probe.dns_decoded_ + 1,
                     decode_errors_ |-> probe.decode_errors_]
        /\ UNCHANGED <<trackerVars, pipelineVars, mainVars>>

\* a DNS header with the given question and answer counts, then the bytes of
\* the question section
DnsPayload(qd_count, answer_count, tail) ==
    <<0, 0, 1, 0, 0, qd_count, 0, answer_count, 0, 0, 0, 0>> \o tail

\* question sections: up to two bytes out of a terminator, a label length,
\* a letter, a pointer mark and the offset 12; the question "a" with type and
\* class; and two pointers that name each other
DnsTails ==
    LET DnsBytes == {0, 1, 97, 192, 12}
    IN  {<< >>} \cup {<<b>> : b \in DnsBytes}
            \cup {<<b, c>> : b \in DnsBytes, c \in DnsBytes}
            \cup { <<1, 97, 0, 0, 1, 0, 1>>, <<192, 14, 192, 12>> }

DnsPayloads ==
    {DnsPayload(qd_count, answer_count, tail) :
        qd_count \in {0, 1}, answer_count \in {0, 1}, tail \in DnsTails}
        \cup {<<0, 0, 1, 0, 0, 1>>}

InitDns ==
    /\ Constructed
    /\ config = NIDSConfig(TRUE, TRUE)
    /\ rules_ = << >>
    /\ probe = [result |-> "idle", dns_decoded_ |-> 0, decode_errors_ |-> 0]

NextDns ==
    \/ \E payload \in DnsPayloads : decode_dns(payload)
    \/ parse_dns_name
    \/ decode_dns_return

\* a call that has started runs on: the thread that called decode_dns takes
\* its next step
SpecDns == InitDns /\ [][NextDns]_vars /\ WF_vars(parse_dns_name) /\ WF_vars(decode_dns_return)

----------------------------------------------------------------------------
(* feature_extractor.cpp: the renderings of a FeatureVector.                *)
(* zmq_publisher.cpp: ZMQPublisher                                          *)

\* the members of FeatureVector that extract assigns
FeatureFields ==
    {
      "ack_flag_count", "act_data_pkt_fwd", "active_max", "active_mean",
      "active_min", "active_std", "avg_bwd_segment_size",
      "avg_fwd_segment_size", "avg_packet_size", "bwd_bulk_packets_avg",
      "bwd_bulk_rate_avg", "bwd_bulk_size_avg", "bwd_header_len",
      "bwd_iat_max", "bwd_iat_mean", "bwd_iat_min", "bwd_iat_std",
      "bwd_iat_total", "bwd_packets_per_sec", "bwd_pkt_len_max",
      "bwd_pkt_len_mean", "bwd_pkt_len_min", "bwd_pkt_len_std",
      "bwd_psh_flags", "bwd_urg_flags", "cwe_flag_count", "down_up_ratio",
      "duration", "ece_flag_count", "fin_flag_count", "flow_bytes_per_sec",
      "flow_iat_max", "flow_iat_mean", "flow_iat_min", "flow_iat_std",
      "flow_packets_per_sec", "fwd_bulk_packets_avg", "fwd_bulk_rate_avg",
      "fwd_bulk_size_avg", "fwd_header_len", "fwd_iat_max", "fwd_iat_mean",
      "fwd_iat_min", "fwd_iat_std", "fwd_iat_total", "fwd_packets_per_sec",
      "fwd_pkt_len_max", "fwd_pkt_len_mean", "fwd_pkt_len_min",
      "fwd_pkt_len_std", "fwd_psh_flags", "fwd_urg_flags", "idle_max",
      "idle_mean", "idle_min", "idle_std", "init_bwd_win_bytes",
      "init_fwd_win_bytes", "min_seg_size_fwd", "pkt_len_max", "pkt_len_mean",
      "pkt_len_min", "pkt_len_std", "pkt_len_variance", "psh_flag_count",
      "rst_flag_count", "subflow_bwd_bytes", "subflow_bwd_packets",
      "subflow_fwd_bytes", "subflow_fwd_packets", "syn_flag_count",
      "total_bwd_bytes", "total_bwd_packets", "total_fwd_bytes",
      "total_fwd_packets", "urg_flag_count" }

\* to_vector: one element per push_back, in the order of the source
to_vector(features) ==
    <<
      features.duration, features.total_fwd_packets,
      features.total_bwd_packets, features.total_fwd_bytes,
      features.total_bwd_bytes, features.fwd_pkt_len_max,
      features.fwd_pkt_len_min, features.fwd_pkt_len_mean,
      features.fwd_pkt_len_std, features.bwd_pkt_len_max,
      features.bwd_pkt_len_min, features.bwd_pkt_len_mean,
      features.bwd_pkt_len_std, features.flow_bytes_per_sec,
      features.flow_packets_per_sec, features.flow_iat_mean,
      features.flow_iat_std, features.flow_iat_max, features.flow_iat_min,
      features.fwd_iat_total, features.fwd_iat_mean, features.fwd_iat_std,
      features.fwd_iat_max, features.fwd_iat_min, features.bwd_iat_total,
      features.bwd_iat_mean, features.bwd_iat_std, features.bwd_iat_max,
      features.bwd_iat_min, features.fwd_psh_flags, features.bwd_psh_flags,
      features.fwd_urg_flags, features.bwd_urg_flags, features.fwd_header_len,
      features.bwd_header_len, features.fwd_packets_per_sec,
      features.bwd_packets_per_sec, features.pkt_len_min,
      features.pkt_len_max, features.pkt_len_mean, features.pkt_len_std,
      features.pkt_len_variance, features.fin_flag_count,
      features.syn_flag_count, features.rst_flag_count,
      features.psh_flag_count, features.ack_flag_count,
      features.urg_flag_count, features.cwe_flag_count,
      features.ece_flag_count, features.down_up_ratio,
      features.avg_packet_size, features.avg_fwd_segment_size,
      features.avg_bwd_segment_size, features.fwd_bulk_rate_avg,
      features.fwd_bulk_size_avg, features.fwd_bulk_packets_avg,
      features.bwd_bulk_rate_avg, features.bwd_bulk_size_avg,
      features.bwd_bulk_packets_avg, features.subflow_fwd_packets,
      features.subflow_fwd_bytes, features.subflow_bwd_packets,
      features.subflow_bwd_bytes, features.init_fwd_win_bytes,
      features.init_bwd_win_bytes, features.act_data_pkt_fwd,
      features.min_seg_size_fwd, features.active_mean, features.active_std,
      features.active_max, features.active_min, features.idle_mean,
      features.idle_std, features.idle_max, features.idle_min >>

\* operator<< of a double under std::fixed and setprecision(6): the digits
\* before the point and the six after it
Fixed6(value) == [whole |-> value, fraction |-> <<0, 0, 0, 0, 0, 0>>]

\* to_csv: the elements of to_vector in order, a comma between two of them
to_csv(features) ==
    LET vec == to_vector(features) IN [i \in 1 .. Len(vec) |-> Fixed6(vec[i])]

\* get_csv_header, split at its commas
get_csv_header ==
    <<
      "duration", "total_fwd_packets", "total_bwd_packets", "total_fwd_bytes",
      "total_bwd_bytes", "fwd_pkt_len_max", "fwd_pkt_len_min",
      "fwd_pkt_len_mean", "fwd_pkt_len_std", "bwd_pkt_len_max",
      "bwd_pkt_len_min", "bwd_pkt_len_mean", "bwd_pkt_len_std",
      "flow_bytes_per_sec", "flow_packets_per_sec", "flow_iat_mean",
      "flow_iat_std", "flow_iat_max", "flow_iat_min", "fwd_iat_total",
      "fwd_iat_mean", "fwd_iat_std", "fwd_iat_max", "fwd_iat_min",
      "bwd_iat_total", "bwd_iat_mean", "bwd_iat_std", "bwd_iat_max",
      "bwd_iat_min", "fwd_psh_flags", "bwd_psh_flags", "fwd_urg_flags",
      "bwd_urg_flags", "fwd_header_len", "bwd_header_len",
      "fwd_packets_per_sec", "bwd_packets_per_sec", "pkt_len_min",
      "pkt_len_max", "pkt_len_mean", "pkt_len_std", "pkt_len_variance",
      "fin_flag_count", "syn_flag_count", "rst_flag_count", "psh_flag_count",
      "ack_flag_count", "urg_flag_count", "cwe_flag_count", "ece_flag_count",
      "down_up_ratio", "avg_packet_size", "avg_fwd_segment_size",
      "avg_bwd_segment_size", "fwd_bulk_rate_avg", "fwd_bulk_size_avg",
      "fwd_bulk_packets_avg", "bwd_bulk_rate_avg", "bwd_bulk_size_avg",
      "bwd_bulk_packets_avg", "subflow_fwd_packets", "subflow_fwd_bytes",
      "subflow_bwd_packets", "subflow_bwd_bytes", "init_fwd_win_bytes",
      "init_bwd_win_bytes", "act_data_pkt_fwd", "min_seg_size_fwd",
      "active_mean", "active_std", "active_max", "active_min", "idle_mean",
      "idle_std", "idle_max", "idle_min" >>

\* to_json: the keys it writes, each with the member it prints
to_json(features) ==
    [
      duration |-> Fixed6(features.duration),
      total_fwd_packets |-> Fixed6(features.total_fwd_packets),
      total_bwd_packets |-> Fixed6(features.total_bwd_packets),
      total_fwd_bytes |-> Fixed6(features.total_fwd_bytes),
      total_bwd_bytes |-> Fixed6(features.total_bwd_bytes),
      fwd_pkt_len_max |-> Fixed6(features.fwd_pkt_len_max),
      fwd_pkt_len_min |-> Fixed6(features.fwd_pkt_len_min),
      fwd_pkt_len_mean |-> Fixed6(features.fwd_pkt_len_mean),
      fwd_pkt_len_std |-> Fixed6(features.fwd_pkt_len_std),
      bwd_pkt_len_max |-> Fixed6(features.bwd_pkt_len_max),
      bwd_pkt_len_min |-> Fixed6(features.bwd_pkt_len_min),
      bwd_pkt_len_mean |-> Fixed6(features.bwd_pkt_len_mean),
      bwd_pkt_len_std |-> Fixed6(features.bwd_pkt_len_std),
      flow_bytes_per_sec |-> Fixed6(features.flow_bytes_per_sec),
      flow_packets_per_sec |-> Fixed6(features.flow_packets_per_sec),
      fin_flag_count |-> Fixed6(features.fin_flag_count),
      syn_flag_count |-> Fixed6(features.syn_flag_count),
      rst_flag_count |-> Fixed6(features.rst_flag_count),
      psh_flag_count |-> Fixed6(features.psh_flag_count),
      ack_flag_count |-> Fixed6(features.ack_flag_count),
      urg_flag_count |-> Fixed6(features.urg_flag_count),
      down_up_ratio |-> Fixed6(features.down_up_ratio),
      avg_packet_size |-> Fixed6(features.avg_packet_size),
      avg_fwd_segment_size |-> Fixed6(features.avg_fwd_segment_size),
      avg_bwd_segment_size |-> Fixed6(features.avg_bwd_segment_size),
      init_fwd_win_bytes |-> Fixed6(features.init_fwd_win_bytes),
      init_bwd_win_bytes |-> Fixed6(features.init_bwd_win_bytes),
      active_mean |-> Fixed6(features.active_mean),
      idle_mean |-> Fixed6(features.idle_mean) ]

\* feature_extractor.h: get_feature_count
get_feature_count == 78

\* messages a publisher handles in a run of the model
MaxMessages == 2

\* ZMQPublisher::init
init ==
    /\ zmq_pub' = [zmq_pub EXCEPT !.connected_ = TRUE]
    /\ probe' = [result |-> "initialised"]
    /\ UNCHANGED <<trackerVars, pipelineVars, nidsVars, liveVars>>

\* ZMQPublisher::publish and the publish_json it ends with; probe keeps the
\* FeatureVector and the second frame of the message
publish(features) ==
    /\ zmq_pub.sent_count_ + zmq_pub.error_count_ < MaxMessages
    /\ IF ~zmq_pub.connected_
       THEN /\ zmq_pub' = [zmq_pub EXCEPT !.error_count_ = @ + 1]
            /\ probe' = [result |-> "not connected", features |-> features]
       ELSE /\ zmq_pub' = [zmq_pub EXCEPT !.sent_count_ = @ + 1]
            /\ probe' = [result |-> "published", features |-> features,
                         json_msg |-> to_json(features)]
    /\ UNCHANGED <<trackerVars, pipelineVars, nidsVars, liveVars>>

\* export_features_csv with feature_log open; probe keeps the FeatureVector
\* and the row written under the header
export_features_csv(features) ==
    /\ probe' = [result |-> "exported", features |-> features,
                 header |-> get_csv_header, row |-> to_csv(features)]
    /\ UNCHANGED <<trackerVars, pipelineVars, mainVars>>

\* FeatureVectors with 1 in one member and 0 in every other
FeatureVectors ==
    {[f \in FeatureFields |-> IF f = member THEN 1 ELSE 0] : member \in FeatureFields}

NextFeatures ==
    \/ init
    \/ \E features \in FeatureVectors : publish(features)
    \/ \E features \in FeatureVectors : export_features_csv(features)

SpecFeatures == Init /\ [][NextFeatures]_vars

----------------------------------------------------------------------------
(* Properties of the flow table *)

Flows == {connections_[k] : k \in DOMAIN connections_}

TableSize == Cardinality(DOMAIN connections_)

\* C1: after any sequence of update, cleanup_expired and clear, the flow
\* table holds at most max_connections_ entries.
C1_SizeWithinMaxConnections == TableSize <= max_connections_

\* C2: a packet with a new 5-tuple that arrives while the table holds
\* max_connections_ entries, none of them aged out or CLOSED, creates no
\* entry (no step adds a key to such a table).
C2_FullTableRejectsNewFlow ==
    [][ ( /\ TableSize >= max_connections_
          /\ \A k \in DOMAIN connections_ : ~is_expired(connections_[k], now) )
        => DOMAIN connections_' \subseteq DOMAIN connections_ ]_vars

\* C3: for every flow in the table, fwd_packets is the number of elements of
\* fwd_pkt_lengths and bwd_packets the number of elements of bwd_pkt_lengths.
C3_PacketsMatchLengths ==
    \A f \in Flows :
        /\ f.fwd_packets = Len(f.fwd_pkt_lengths)
        /\ f.bwd_packets = Len(f.bwd_pkt_lengths)

C3_Witness ==
    \E f \in Flows : f.fwd_packets >= 3 /\ f.state = "CLOSED"

\* C4: for every flow in the table, fwd_iat holds max(0, fwd_packets - 1)
\* samples: none for the first packet, one for each later packet.
C4_IatCount ==
    \A f \in Flows :
        Len(f.fwd_iat) = IF f.fwd_packets >= 1 THEN f.fwd_packets - 1 ELSE 0

C4_Witness ==
    \E f, g \in Flows :
        /\ f.fwd_packets = 1 /\ f.fwd_iat = << >>
        /\ g.fwd_packets = 4 /\ Len(g.fwd_iat) = 3

\* C5: for every flow, whatever the order of the capture timestamps of its
\* packets, last_seen >= start_time.
C5_LastSeenNotBeforeStart ==
    \A f \in Flows : f.last_seen >= f.start_time

\* C6 as stated: for every flow, duration is exactly last_seen - start_time
\* in seconds (duration / MsPerSec = (last_seen - start_time) / TicksPerSec).
C6_DurationExact ==
    \A f \in Flows : f.duration * TicksPerMs = f.last_seen - f.start_time

\* C6 amended: for every flow, duration is last_seen - start_time cut to a
\* whole number of milliseconds (rounded toward zero), in seconds.
C6_DurationWholeMilliseconds ==
    \A f \in Flows :
        LET d == f.last_seen - f.start_time
            a == IF d >= 0 THEN d ELSE -d
            m == IF f.duration >= 0 THEN f.duration ELSE -f.duration
        IN  /\ m * TicksPerMs <= a
            /\ a < (m + 1) * TicksPerMs
            /\ (d >= 0 => f.duration >= 0)
            /\ (d <= 0 => f.duration <= 0)

C6_Witness ==
    \E f \in Flows :
        /\ f.fwd_packets >= 2
        /\ f.duration >= 1
        /\ f.duration * TicksPerMs < f.last_seen - f.start_time

----------------------------------------------------------------------------
(* One step of update seen from outside: the key it touched, the state the
   flow had before (UNKNOWN for a flow the step created) and the flag bits
   the step tallied. *)

Updated(k) ==
    /\ k \in DOMAIN connections_'
    /\ connections_'[k].fwd_packets =
          IF k \in DOMAIN connections_ THEN connections_[k].fwd_packets + 1 ELSE 1

StateBefore(k) ==
    IF k \in DOMAIN connections_ THEN connections_[k].state ELSE "UNKNOWN"

Tallied(k, field) ==
    connections_'[k][field]
        - (IF k \in DOMAIN connections_ THEN connections_[k][field] ELSE 0)

FlagsSeen(k) ==
      TCP_SYN * Tallied(k, "syn_count") + TCP_ACK * Tallied(k, "ack_count")
    + TCP_FIN * Tallied(k, "fin_count") + TCP_RST * Tallied(k, "rst_count")
    + TCP_PSH * Tallied(k, "psh_count") + TCP_URG * Tallied(k, "urg_count")

Drives(k, from, flags, to) ==
    (StateBefore(k) = from /\ FlagsSeen(k) = flags) => connections_'[k].state = to

\* C8: on one 5-tuple, (SYN) takes a new flow from UNKNOWN to SYN_SENT,
\* (SYN+ACK) takes SYN_SENT to SYN_RECEIVED, (ACK) takes SYN_RECEIVED to
\* ESTABLISHED; from ESTABLISHED (RST) gives CLOSED, (FIN) gives FIN_WAIT, and
\* from FIN_WAIT a second (FIN) gives CLOSED.
C8_HandshakeAndTeardown ==
    [][ \A k \in DOMAIN connections_' :
          Updated(k) =>
            /\ (k \notin DOMAIN connections_ => StateBefore(k) = "UNKNOWN")
            /\ Drives(k, "UNKNOWN", TCP_SYN, "SYN_SENT")
            /\ Drives(k, "SYN_SENT", TCP_SYN + TCP_ACK, "SYN_RECEIVED")
            /\ Drives(k, "SYN_RECEIVED", TCP_ACK, "ESTABLISHED")
            /\ Drives(k, "ESTABLISHED", TCP_RST, "CLOSED")
            /\ Drives(k, "ESTABLISHED", TCP_FIN, "FIN_WAIT")
            /\ Drives(k, "FIN_WAIT", TCP_FIN, "CLOSED") ]_vars

\* a flow that took (SYN), (SYN+ACK), (ACK), (FIN), (FIN) and is CLOSED
C8_Witness ==
    \E f \in Flows :
        /\ f.state = "CLOSED" /\ f.fwd_packets = 5
        /\ f.syn_count = 2 /\ f.ack_count = 2 /\ f.fin_count = 2
        /\ f.rst_count = 0

----------------------------------------------------------------------------
(* Expiry *)

\* now - last_seen exceeds timeout_seconds_, compared as exact durations
AgedOut(f) == now - f.last_seen > timeout_seconds_ * TicksPerSec

\* now - last_seen holds more than timeout_seconds_ whole seconds
AgedOutWholeSeconds(f) == now - f.last_seen >= (timeout_seconds_ + 1) * TicksPerSec

\* what cleanup_expired, run in the current state, does to the entry of k
CleanupRemoves(k) == ~ENABLED (cleanup_expired /\ k \in DOMAIN connections_')

CleanupKeeps(k) ==
    ~ENABLED ( /\ cleanup_expired
               /\ ~(k \in DOMAIN connections_' /\ connections_'[k] = connections_[k]) )

\* C9 as stated: cleanup_expired removes every entry with
\* now - last_seen > timeout_seconds_ and every CLOSED entry, and keeps every
\* other entry unchanged.
C9_CleanupByAge ==
    \A k \in DOMAIN connections_ :
        IF AgedOut(connections_[k]) \/ connections_[k].state = "CLOSED"
        THEN CleanupRemoves(k) ELSE CleanupKeeps(k)

\* C9 amended: the age is now - last_seen counted in whole seconds (the
\* fraction of a second is dropped); cleanup_expired removes every entry
\* whose age in whole seconds exceeds timeout_seconds_ and every CLOSED entry,
\* and keeps every other entry unchanged.
C9_CleanupByWholeSeconds ==
    \A k \in DOMAIN connections_ :
        IF AgedOutWholeSeconds(connections_[k]) \/ connections_[k].state = "CLOSED"
        THEN CleanupRemoves(k) ELSE CleanupKeeps(k)

\* cleanup has expired entries, and the table holds both a flow whose
\* last_seen is timeout_seconds_ + 1 seconds old and a flow that started as
\* long ago but was seen since
C9_Witness ==
    /\ expired_connections_ >= 1
    /\ \E f, g \in Flows :
          /\ f.state # "CLOSED"
          /\ now - f.last_seen = (timeout_seconds_ + 1) * TicksPerSec
          /\ g.state # "CLOSED"
          /\ now - g.start_time = (timeout_seconds_ + 1) * TicksPerSec
          /\ g.last_seen = now

----------------------------------------------------------------------------
(* The transition table of the TCP state machine *)

\* a row: from `from`, on a flag byte with every bit of `set` and no bit of
\* `clear`, to `to`
TransitionTable ==
    { [from |-> "UNKNOWN", set |-> TCP_SYN, clear |-> TCP_ACK, to |-> "SYN_SENT"],
      [from |-> "SYN_SENT", set |-> TCP_SYN + TCP_ACK, clear |-> 0,
       to |-> "SYN_RECEIVED"],
      [from |-> "SYN_RECEIVED", set |-> TCP_ACK, clear |-> 0, to |-> "ESTABLISHED"],
      [from |-> "ESTABLISHED", set |-> TCP_FIN, clear |-> 0, to |-> "FIN_WAIT"],
      [from |-> "ESTABLISHED", set |-> TCP_RST, clear |-> 0, to |-> "CLOSED"],
      [from |-> "FIN_WAIT", set |-> TCP_FIN, clear |-> 0, to |-> "CLOSED"],
      [from |-> "FIN_WAIT", set |-> TCP_RST, clear |-> 0, to |-> "CLOSED"] }

TableTargets(state, flags) ==
    { row.to : row \in { r \in TransitionTable :
                           /\ r.from = state
                           /\ BitAnd(flags, r.set) = r.set
                           /\ BitAnd(flags, r.clear) = 0 } }

\* C7: for every state and every 6-bit flag byte, a TCP packet takes the flow
\* to a state the transition table gives for that state and byte, or leaves
\* the state unchanged when no row applies; a packet without a TCP header
\* leaves the state unchanged.
C7_TransitionTable ==
    probe.result \notin {"idle", "none"} =>
        IF probe.has_tcp /\ TableTargets(probe.state, probe.flags) # {}
        THEN probe.result \in TableTargets(probe.state, probe.flags)
        ELSE probe.result = probe.state

C7_Witness ==
    /\ probe.has_tcp
    /\ probe.state = "SYN_SENT"
    /\ probe.flags = TCP_SYN + TCP_ACK + TCP_PSH
    /\ probe.result = "SYN_RECEIVED"

----------------------------------------------------------------------------
(* Frames that fail to decode *)

\* C10: when decoding a frame fails, parse_errors increases by exactly 1 and
\* the packet goes no further: no flow entry is created or updated, the rule
\* engine is not invoked for it, and no alert is emitted.
C10_FailedDecodeDropsPacket ==
    [][ (next_packet_id_' = next_packet_id_ + 1 /\ packets_parsed_' = packets_parsed_)
        => /\ parse_errors_' = parse_errors_ + 1
           /\ connections_' = connections_
           /\ packets_evaluated_' = packets_evaluated_
           /\ alert_log' = alert_log ]_vars

----------------------------------------------------------------------------
(* Properties of the parser *)

\* a step that called parse
ParseStep == next_packet_id_' = next_packet_id_ + 1 /\ probe'.result = "parsed"

NoTransport(packet) == ~packet.has_tcp /\ ~packet.has_udp

FrameEthertype(frame) == U16(frame, 12)
FrameVersion(frame) == Byte(frame, 14) \div 16
FrameIhl(frame) == Byte(frame, 14) % 16

Undecodable(frame) ==
    \/ Len(frame) < 34
    \/ FrameEthertype(frame) # ETHERTYPE_IPV4
    \/ FrameVersion(frame) # 4

\* C11: parse of a frame shorter than 34 bytes, or whose ethertype is not
\* 0x0800, or whose IP version nibble is not 4, adds exactly 1 to
\* parse_errors, leaves packets_parsed unchanged and reports neither a TCP
\* nor a UDP header.
C11_UndecodableFrameFails ==
    [][ (ParseStep /\ Undecodable(probe'.frame))
          => /\ parse_errors_' = parse_errors_ + 1
             /\ packets_parsed_' = packets_parsed_
             /\ NoTransport(probe'.packet) ]_vars

\* a full-length frame with an ARP ethertype, and one with version nibble 6,
\* have each been counted as an error after an earlier frame was parsed
C11_Witness ==
    /\ probe.result = "parsed"
    /\ Len(probe.frame) >= 34
    /\ \/ FrameEthertype(probe.frame) = 2054
       \/ FrameEthertype(probe.frame) = ETHERTYPE_IPV4 /\ FrameVersion(probe.frame) = 6
    /\ parse_errors_ >= 1
    /\ packets_parsed_ >= 1

\* an IPv4 frame of at least 34 bytes whose header announces fewer than 5 words
ShortIhl(frame) ==
    /\ Len(frame) >= 34
    /\ FrameEthertype(frame) = ETHERTYPE_IPV4
    /\ FrameVersion(frame) = 4
    /\ FrameIhl(frame) < 5

\* C12: parse of an IPv4 frame whose IHL nibble is 0 to 4 (header length
\* below 20) is counted in parse_errors and yields neither a TCP nor a UDP
\* header.
C12_ShortIhlFails ==
    [][ (ParseStep /\ ShortIhl(probe'.frame))
          => /\ parse_errors_' = parse_errors_ + 1
             /\ packets_parsed_' = packets_parsed_
             /\ NoTransport(probe'.packet) ]_vars

\* a frame of at least 34 bytes whose announced IPv4 header runs past its end
HeaderPastFrame(frame) ==
    /\ Len(frame) >= 34
    /\ FrameIhl(frame) * 4 > Len(frame) - ETHER_HDR_SIZE

\* C13: for a frame of length >= 34 whose IHL x 4 exceeds length - 14, parse
\* fails or returns a packet with has_tcp and has_udp both false: no
\* transport header is taken from beyond the frame.
C13_HeaderPastFrameHasNoTransport ==
    [][ (ParseStep /\ HeaderPastFrame(probe'.frame))
          => NoTransport(probe'.packet) ]_vars

\* a frame whose transport header lies inside it, behind a header of at least
\* 5 words
CarriesTransport(frame, packet) ==
    /\ packet.has_tcp \/ packet.has_udp
    /\ FrameIhl(frame) >= 5
    /\ \/ packet.has_tcp
          /\ Len(frame) >= ETHER_HDR_SIZE + FrameIhl(frame) * 4 + 20
       \/ packet.has_udp
          /\ Len(frame) >= ETHER_HDR_SIZE + FrameIhl(frame) * 4 + 8

\* C14: the ports get_src_port / get_dst_port return for a decoded TCP or UDP
\* frame are the 16-bit big-endian values of the frame's transport header.
C14_PortsRoundTrip ==
    (probe.result = "parsed" /\ CarriesTransport(probe.frame, probe.packet))
        => LET at == ETHER_HDR_SIZE + FrameIhl(probe.frame) * 4
           IN  /\ get_src_port(probe.packet) = U16(probe.frame, at)
               /\ get_dst_port(probe.packet) = U16(probe.frame, at + 2)

----------------------------------------------------------------------------
(* Properties of the rule engine *)

\* a step that called evaluate, and the alerts the call returned
EvaluateStep == packets_evaluated_' = packets_evaluated_ + 1
NewAlerts == SubSeq(alert_log', Len(alert_log) + 1, Len(alert_log'))
Raised(alerts, rule_id) == \E k \in 1 .. Len(alerts) : alerts[k].rule_id = rule_id

RuleIds == {rules_[i].rule_id : i \in 1 .. Len(rules_)}

\* the rule enable_rule(rule_id, ...) assigns to
FirstWithId(rule_id) ==
    rules_[CHOOSE i \in 1 .. Len(rules_) :
               /\ rules_[i].rule_id = rule_id
               /\ \A j \in 1 .. i - 1 : rules_[j].rule_id # rule_id]

\* C15: after enable_rule(id, false) and until enable_rule(id, true), no
\* evaluate call emits an alert carrying rule_id id, whatever add_rule calls
\* came before.  enable_rule(id, false) leaves the first rule with that id
\* disabled and only enable_rule(id, true) enables it again, so the condition
\* is that the first rule with the id is disabled.
C15_DisabledIdRaisesNoAlert ==
    [][ EvaluateStep
          => \A id \in RuleIds :
                 ~FirstWithId(id).enabled => ~Raised(NewAlerts, id) ]_vars

\* C16: alert_id values are strictly increasing in emission order over the
\* whole run: within the alerts of one packet, from one packet to the next,
\* and across add_rule and enable_rule calls.
C16_AlertIdsIncrease ==
    \A i, j \in 1 .. Len(alert_log) :
        i < j => alert_log[i].alert_id < alert_log[j].alert_id

\* two packets evaluated, one of them raising two alerts, with a rule
\* disabled at the end
C16_Witness ==
    /\ packets_evaluated_ >= 2
    /\ Len(alert_log) >= 3
    /\ alert_log[1].packet_id = alert_log[2].packet_id
    /\ alert_log[1].rule_id # alert_log[2].rule_id
    /\ \E i \in 1 .. Len(rules_) : ~rules_[i].enabled

\* the rule_id of every rule of the list that matches the packet, in list order
MatchingIds(rules, packet) ==
    LET matching == SelectSeq(rules, LAMBDA rule : RuleMatches(rule, packet))
    IN  [k \in 1 .. Len(matching) |-> matching[k].rule_id]

\* C17: add_rule puts the rule behind those inserted before it, and the
\* alerts evaluate returns for a packet are those of the matching rules in
\* rule-list order.
C17_AlertsInInsertionOrder ==
    [][ /\ Len(rules_') = Len(rules_) + 1
            => SubSeq(rules_', 1, Len(rules_)) = rules_
        /\ EvaluateStep
            => [k \in 1 .. Len(NewAlerts) |-> NewAlerts[k].rule_id]
                   = MatchingIds(rules_, probe'.packet) ]_vars

\* rule 1003 was inserted before rule 1001 and one packet raised both
C17_Witness ==
    /\ Len(rules_) = 2
    /\ rules_[1].rule_id = 1003
    /\ rules_[2].rule_id = 1001
    /\ Len(alert_log) = 2
    /\ alert_log[1].rule_id = 1003
    /\ alert_log[2].rule_id = 1001
    /\ alert_log[1].packet_id = alert_log[2].packet_id

\* C18: a rule with regular expressions raises an alert for a packet only if
\* one of them matches the payload.
C18_RegexRequired ==
    [][ EvaluateStep
          => \A i \in 1 .. Len(rules_) :
                 (/\ rules_[i].regex_patterns # << >>
                  /\ ~match_regex(probe'.packet.payload, probe'.packet.payload_length,
                                  rules_[i].regex_patterns))
                     => ~Raised(NewAlerts, rules_[i].rule_id) ]_vars

\* C19: a rule with a non-zero tcp_flags_mask raises an alert for a packet,
\* TCP or not, only if (packet flags & mask) == value.
C19_FlagMaskRequired ==
    [][ EvaluateStep
          => \A i \in 1 .. Len(rules_) :
                 (rules_[i].tcp_flags_mask # 0 /\ Raised(NewAlerts, rules_[i].rule_id))
                     => match_tcp_flags(probe'.packet.tcp_header.flags,
                                        rules_[i].tcp_flags_mask,
                                        rules_[i].tcp_flags_value) ]_vars

\* some pattern, letter case apart, lies inside the first
\* min(payload_length, 1024) bytes of the payload
ContentHit(payload, payload_length, patterns) ==
    LET scanned == Min(payload_length, PayloadScanLimit)
    IN  \E p \in 1 .. Len(patterns) :
            \E at \in 0 .. scanned :
                /\ at + Len(patterns[p]) <= scanned
                /\ \A j \in 1 .. Len(patterns[p]) :
                       ToLower(payload[at + j]) = ToLower(patterns[p][j])

\* the rule without its content patterns
ApartFromContent(rule) == [rule EXCEPT !.content_patterns = << >>]

\* C20: a rule with content patterns, its other conditions being met, raises
\* an alert for a packet exactly when one of the patterns, compared without
\* regard to case, is a substring of the first min(payload_length, 1024)
\* payload bytes; a pattern beyond byte 1024 and an empty payload do not match.
C20_ContentWithinScanLimit ==
    [][ EvaluateStep
          => \A i \in 1 .. Len(rules_) :
                 (/\ rules_[i].content_patterns # << >>
                  /\ RuleMatches(ApartFromContent(rules_[i]), probe'.packet))
                     => (Raised(NewAlerts, rules_[i].rule_id)
                           <=> ContentHit(probe'.packet.payload,
                                          probe'.packet.payload_length,
                                          rules_[i].content_patterns)) ]_vars

\* "x' OR 1=1" raised the only alert, on pattern "or 1=1"; the packet evaluated
\* last holds "or 1=1" beyond the scan limit
C20_Witness ==
    /\ probe.result = "evaluated"
    /\ probe.packet.payload_length > PayloadScanLimit
    /\ Contains(probe.packet.payload, Str_or_1_1)
    /\ Len(rules_) >= 1
    /\ Len(alert_log) = 1
    /\ alert_log[1].packet_id = 1
    /\ alert_log[1].matched_content = Str_or_1_1

----------------------------------------------------------------------------
(* Properties of the signature pipeline with the default rules *)

\* a step that took one frame through the loop of process_pcap_file
SidsStep == next_packet_id_' = next_packet_id_ + 1 /\ probe'.result = "processed"

\* the first pattern of the list that lies in the scanned payload
FirstHit(payload, payload_length, patterns) ==
    LET hits == {p \in 1 .. Len(patterns) :
                    ContentHit(payload, payload_length, <<patterns[p]>>)}
    IN  patterns[CHOOSE p \in hits : \A q \in hits : p <= q]

\* C21: the matched_content of an alert is the first pattern of the rule, in
\* list order, that occurs in the payload, and is empty for a rule without
\* content patterns; a packet to port 80 whose payload contains "UNION SELECT"
\* makes rule 1002 raise an alert with matched_content "union select".
C21_MatchedContentIsFirstPattern ==
    [][ SidsStep
          => /\ \A k \in 1 .. Len(NewAlerts) :
                    LET rule == FirstWithId(NewAlerts[k].rule_id)
                    IN  NewAlerts[k].matched_content =
                            IF rule.content_patterns = << >> THEN << >>
                            ELSE FirstHit(probe'.packet.payload,
                                          probe'.packet.payload_length,
                                          rule.content_patterns)
             /\ probe'.frame = SqlInjectionFrame
                    => \E k \in 1 .. Len(NewAlerts) :
                           /\ NewAlerts[k].rule_id = 1002
                           /\ NewAlerts[k].matched_content = Str_union_select ]_vars

\* C22: with the rules of load_rules, a TCP packet from 10.0.0.5:40000 to
\* 10.0.0.10:22 with SYN as its only flag raises exactly one alert, of rule
\* 1001 and severity MEDIUM.
C22_SshSynRaisesOneAlert ==
    [][ (SidsStep /\ probe'.frame = SshSynFrame)
          => /\ Len(NewAlerts) = 1
             /\ NewAlerts[1].rule_id = 1001
             /\ NewAlerts[1].severity = "MEDIUM" ]_vars

----------------------------------------------------------------------------
(* Properties of the feature renderings *)

HeaderColumns == {get_csv_header[i] : i \in 1 .. Len(get_csv_header)}

\* C23: the vector of to_vector has get_feature_count (78) elements, the CSV
\* header has as many columns, and the i-th element of a row is the member the
\* i-th column names.
C23_VectorMatchesHeader ==
    probe.result = "exported"
        => /\ Len(to_vector(probe.features)) = get_feature_count
           /\ Len(probe.header) = get_feature_count
           /\ \A i \in 1 .. Len(probe.row) :
                  /\ i <= Len(probe.header)
                  /\ probe.row[i] = Fixed6(probe.features[probe.header[i]])

\* C24: the JSON object published for a FeatureVector has exactly the columns
\* of the CSV header as its keys.
C24_JsonKeysAreHeaderColumns ==
    probe.result = "published" => DOMAIN probe.json_msg = HeaderColumns

----------------------------------------------------------------------------
(* Properties of the capture loop *)

HandlerStep == next_packet_id_' = next_packet_id_ + 1 /\ probe'.result = "handled"

\* C26: the stop flag is polled between packets: once stop_capture is set (or
\* g_running cleared) no further packet is decoded, tracked or evaluated.
C26_NoPacketAfterStop ==
    [][ (stop_capture \/ ~g_running)
          => /\ next_packet_id_' = next_packet_id_
             /\ packets_parsed_' = packets_parsed_
             /\ parse_errors_' = parse_errors_
             /\ total_connections_' = total_connections_
             /\ packets_evaluated_' = packets_evaluated_ ]_vars

StatsThreadAccessesStatistics == stats_pc \in {"update", "print"}

\* C27: during live capture the capture loop never writes a member of stats_
\* while stats_thread reads or writes stats_: the two are never in their
\* accesses at the same time, there being neither a lock nor an atomic member
\* to order them.
C27_StatisticsAccessOrdered ==
    ~(CaptureWritesStatistics /\ StatsThreadAccessesStatistics)

----------------------------------------------------------------------------
(* Expiry inside update *)

----------------------------------------------------------------------------
(* The TCP state of a flow over its life *)

\* the order in which update_tcp_state takes a flow through its states
StateOrder ==
    <<"UNKNOWN", "SYN_SENT", "SYN_RECEIVED", "ESTABLISHED", "FIN_WAIT", "CLOSED">>

StateRank(state) == CHOOSE i \in 1 .. Len(StateOrder) : StateOrder[i] = state

\* C30: while a flow's entry exists its state never moves backwards in the
\* order UNKNOWN, SYN_SENT, SYN_RECEIVED, ESTABLISHED, FIN_WAIT, CLOSED, and a
\* CLOSED flow stays CLOSED whatever packet it is given.
C30_StateOnlyAdvances ==
    [][ \A k \in DOMAIN connections_ \cap DOMAIN connections_' :
          /\ StateRank(connections_'[k].state) >= StateRank(connections_[k].state)
          /\ connections_[k].state = "CLOSED" => connections_'[k].state = "CLOSED" ]_vars

\* a flow went through SYN, SYN+ACK, ACK and RST to CLOSED and was then given
\* a fifth packet, a SYN: it is still CLOSED
C30_Witness ==
    \E f \in Flows :
        /\ f.state = "CLOSED" /\ f.fwd_packets = 5
        /\ f.syn_count = 3 /\ f.ack_count = 2 /\ f.rst_count = 1 /\ f.fin_count = 0

----------------------------------------------------------------------------
(* The payload slice *)

\* C31: the payload of a decoded TCP or UDP packet with payload_length > 0
\* starts right behind the transport header (14 + IHL x 4 + data_offset x 4
\* for TCP, 14 + IHL x 4 + 8 for UDP), does not overlap the 20 fixed bytes of
\* the TCP header, and ends at or before the end of the frame.
C31_PayloadInsideFrame ==
    ( /\ probe.result = "parsed"
      /\ probe.packet.has_tcp \/ probe.packet.has_udp
      /\ probe.packet.payload_length > 0 )
        => LET packet == probe.packet
               transport == ETHER_HDR_SIZE + (packet.ip_header.version_ihl % 16) * 4
           IN  /\ packet.payload_offset =
                      transport + (IF packet.has_tcp
                                   THEN packet.tcp_header.data_offset * 4 ELSE 8)
               /\ packet.has_tcp => packet.payload_offset >= transport + 20
               /\ packet.payload_offset + packet.payload_length <= Len(probe.frame)

----------------------------------------------------------------------------
(* The counters of the parser *)

\* the packet_id of the call before this one, 0 before the first call
LastPacketId == IF probe.result = "parsed" THEN probe.packet.packet_id ELSE 0

\* C32: every call of parse increments exactly one of packets_parsed_ and
\* parse_errors_ and takes the packet_id that follows the one of the call
\* before (1 for the first call), whether the decode fails or not; so the two
\* counters add up to the number of calls.
C32_CountersAndPacketIds ==
    /\ [](packets_parsed_ + parse_errors_ = LastPacketId)
    /\ [][ /\ \/ /\ packets_parsed_' = packets_parsed_ + 1
                 /\ parse_errors_' = parse_errors_
              \/ /\ packets_parsed_' = packets_parsed_
                 /\ parse_errors_' = parse_errors_ + 1
           /\ probe'.packet.packet_id = LastPacketId + 1 ]_vars

\* three calls, the middle one failed: the third packet has packet_id 3
C32_Witness ==
    /\ probe.result = "parsed"
    /\ probe.packet.packet_id = 3
    /\ probe.packet.has_tcp
    /\ packets_parsed_ = 2
    /\ parse_errors_ = 1

\* every regular expression of the rule throws std::regex_error
AllInvalid(rule) ==
    /\ rule.regex_patterns # << >>
    /\ \A i \in 1 .. Len(rule.regex_patterns) : ~Compiles(rule.regex_patterns[i])

\* C33: a rule all of whose regex_patterns fail to compile raises no alert for
\* any packet, and the rules without regular expressions are still evaluated
\* for that packet: each of them raises an alert exactly when its own
\* conditions match.
C33_InvalidRegexNeverAlerts ==
    [][ EvaluateStep
          => \A i \in 1 .. Len(rules_) :
                 /\ AllInvalid(rules_[i]) => ~Raised(NewAlerts, rules_[i].rule_id)
                 /\ rules_[i].regex_patterns = << >>
                       => (Raised(NewAlerts, rules_[i].rule_id)
                             <=> \E j \in 1 .. Len(rules_) :
                                     /\ rules_[j].rule_id = rules_[i].rule_id
                                     /\ RuleMatches(rules_[j], probe'.packet)) ]_vars

\* the directional 5-tuple of the packet the last packet_handler call decoded
OwnTuple(packet) ==
    [ src_ip   |-> packet.ip_header.src_ip,
      dst_ip   |-> packet.ip_header.dst_ip,
      src_port |-> get_src_port(packet),
      dst_port |-> get_dst_port(packet),
      protocol |-> packet.ip_header.protocol ]

Reverse(key) ==
    [ src_ip   |-> key.dst_ip,
      dst_ip   |-> key.src_ip,
      src_port |-> key.dst_port,
      dst_port |-> key.src_port,
      protocol |-> key.protocol ]

\* C34: update(packet) changes only the entry keyed by the packet's own
\* directional 5-tuple: when the call expires nothing, that entry is created
\* or gains one packet, every other entry, the one keyed by the reverse
\* 5-tuple included, is left as it was, and the reverse 5-tuple is a different
\* key.
C34_OnlyOwnDirectionalEntry ==
    [][ ( /\ HandlerStep
          /\ probe'.ok
          /\ config.track_connections
          /\ expired_connections_' = expired_connections_ )
            => LET key == OwnTuple(probe'.packet)
               IN  /\ DOMAIN connections_' = DOMAIN connections_ \cup {key}
                   /\ Updated(key)
                   /\ Reverse(key) # key
                   /\ \A other \in DOMAIN connections_ \ {key} :
                          connections_'[other] = connections_[other] ]_vars

\* the SYN+ACK coming back was tracked beside the flow of the SYN, which kept
\* its one packet
C34_Witness ==
    /\ probe.result = "handled"
    /\ probe.ok
    /\ config.track_connections
    /\ probe.packet.ip_header.src_ip = Server
    /\ OwnTuple(probe.packet) \in DOMAIN connections_
    /\ Reverse(OwnTuple(probe.packet)) \in DOMAIN connections_
    /\ connections_[Reverse(OwnTuple(probe.packet))].fwd_packets = 1
    /\ connections_[OwnTuple(probe.packet)].fwd_packets = 1

\* C35: decode_dns terminates for every payload: a call that has reached
\* parse_dns_name returns, also when the compression pointers of the question
\* name form a cycle.
C35_DecodeDnsTerminates == (probe.result = "parse_dns_name") ~> (probe.result = "decoded")

\* C36: a packet with both FIN and RST on an ESTABLISHED flow moves it to
\* FIN_WAIT, not to CLOSED; from FIN_WAIT the flow goes to CLOSED only on a
\* packet that carries FIN or RST.
C36_FinBeforeRst ==
    [][ \A k \in DOMAIN connections_' :
            Updated(k)
              => /\ ( /\ StateBefore(k) = "ESTABLISHED"
                      /\ HasFlag(FlagsSeen(k), TCP_FIN)
                      /\ HasFlag(FlagsSeen(k), TCP_RST) )
                        => connections_'[k].state = "FIN_WAIT"
                 /\ (StateBefore(k) = "FIN_WAIT" /\ connections_'[k].state = "CLOSED")
                        => (HasFlag(FlagsSeen(k), TCP_FIN) \/ HasFlag(FlagsSeen(k), TCP_RST)) ]_vars

\* SYN, SYN+ACK, ACK and then one packet with FIN and RST: the flow is in
\* FIN_WAIT
C36_Witness ==
    \E k \in DOMAIN connections_ :
        /\ connections_[k].fwd_packets = 4
        /\ connections_[k].syn_count = 2
        /\ connections_[k].ack_count = 2
        /\ connections_[k].fin_count = 1
        /\ connections_[k].rst_count = 1
        /\ connections_[k].state = "FIN_WAIT"

\* C37: after any sequence of evaluate, add_rule and enable_rule calls,
\* alerts_generated_ = rule_matches_ = next_alert_id_ - 1 = the number of
\* alerts returned so far, and packets_evaluated_ is the number of evaluate
\* calls: it starts at zero, a call that leaves the rule list alone (an
\* evaluate) adds one to it, and a call that changes the rule list leaves all
\* four counters alone.
C37_EngineCountersAgree ==
    /\ []( /\ alerts_generated_ = rule_matches_
           /\ rule_matches_ = next_alert_id_ - 1
           /\ next_alert_id_ - 1 = Len(alert_log) )
    /\ [][ IF rules_' = rules_
           THEN packets_evaluated_' = packets_evaluated_ + 1
           ELSE UNCHANGED <<packets_evaluated_, alerts_generated_, rule_matches_,
                            next_alert_id_, alert_log>> ]_vars

\* three packets evaluated, four alerts returned, and a rule disabled since
C37_Witness ==
    /\ packets_evaluated_ = 3
    /\ alerts_generated_ = 4
    /\ Len(alert_log) = 4
    /\ \E i \in 1 .. Len(rules_) : ~rules_[i].enabled

RECURSIVE SumSeq(_)
SumSeq(samples) == IF samples = << >> THEN 0 ELSE Head(samples) + SumSeq(Tail(samples))

UpdateCall ==
    /\ probe'.result = "updated"
    /\ \/ total_connections_' # total_connections_
       \/ \E k \in DOMAIN connections_' : Updated(k)

C40_StopEndsCapture ==
    /\ [](capture_pc = "done" => stats_pc = "done")
    /\ (~g_running /\ capture_pc \in {"next", "body", "join"}) ~> (capture_pc = "done")

\* capture_live returned after the signal, with a packet processed and
\* stats_thread ended
C40_Witness ==
    /\ capture_pc = "done"
    /\ stats_pc = "done"
    /\ ~g_running
    /\ stats_.total_packets >= 1

====
